---- MODULE Spec2Model ----
(***************************************************************************)
(* A model of the music_game metadata scripts (src/scripts/*.py).          *)
(*                                                                         *)
(* Text is modelled as sequences of one-character strings, so that the     *)
(* scripts' normalisations (lower-casing, stripping, regex replacement,    *)
(* truncation) are computed, not assumed.  Python's None is the value      *)
(* None below, a sequence no text can equal.                               *)
(*                                                                         *)
(* Each script is a specification of its own over the shared variables:    *)
(*   SpecIds, SpecTamil, SpecAssets                                        *)
(*              - build_english_metadata.main, build_tamil_metadata.main   *)
(*                and cut_audio_clips._build_id_map (identity assignment,  *)
(*                asset resolution, override pass)                         *)
(*   SpecClips, SpecOverrides, SpecCsv                                     *)
(*              - the builds over missing clips, over an overrides file,   *)
(*                over a CSV whose header lacks columns                    *)
(*   SpecAgree  - cut_audio_clips.main, then build_english_metadata.main   *)
(*   SpecCache, SpecCorrupt, SpecWindow                                    *)
(*              - the two clean_metadata_*_with_llm cleaners (cache,       *)
(*                unusable cache file, --start-at and --limit)             *)
(*   SpecPipeline - build_tamil_metadata.main, then the metadata cleaner   *)
(*   SpecCalls  - helper functions called on their own                     *)
(*   SpecFilter, SpecRerun                                                 *)
(*              - filter_new_english_songs.main (classification, moves)    *)
(*   SpecMerge  - merge_english_jsons._merge                               *)
(***************************************************************************)
EXTENDS Integers, Sequences, FiniteSets, TLC

VARIABLES
    \* ---- the metadata builds and the clip cutter's id map ----
    script,        \* which program runs: "english", "tamil", "cut_english", "cut_tamil"
    pc,            \* position in the row loop: "row", "while", "done"
    rows,          \* the CSV file: its rows, in order
    nrows,         \* CSV rows read so far
    row,           \* the row being processed
    base_id,       \* local base_id
    unique_id,     \* local unique_id
    counter,       \* local counter
    used_ids,      \* the set used_ids
    items,         \* the list items (the catalog that is written at the end)
    id_map,        \* cut_audio_clips: the dict id_map (name -> id)
    chosen,        \* history: per row that left the while loop, its id and fate
    mp3s,          \* names n for which <lang_dir>/<n>.mp3 exists
    clips,         \* pairs <<n, d>> for which <lang_dir>/clips/<n>/clip_<d>s.mp3 exists
    durations,     \* the parsed --durations list
    require_all,   \* --require-all-durations
    only_preview,  \* --only-preview (None when absent)
    overrides,     \* build_tamil: the dict returned by _load_overrides
    written,       \* the catalog file: None until the run writes it
    \* ---- filter_new_english_songs.main and merge_english_jsons._merge ----
    tool,          \* which program runs: "filter", "merge" ("none": neither)
    rpc,           \* position: "base", "incoming", "write", "move", "done"
    ridx,          \* items of the current loop already handled
    base_items,    \* the base JSON list
    incoming_items,\* the incoming JSON list
    duplicate_mode,\* filter: --duplicate-mode
    dry_run,       \* filter: --dry-run
    base_keys,     \* filter: the set built by _build_base_keys
    non_duplicates,\* filter: the list non_duplicates
    duplicates,    \* filter: the list duplicates
    clips_root,    \* filter: entries of --clips-root (name -> [kind, from])
    duplicates_dir,\* filter: entries of --duplicates-dir (name -> [kind, from])
    filter_runs,   \* filter: history: runs of the filter started so far
    prefer_second, \* merge: --prefer-second
    merged,        \* merge: the list merged
    index,         \* merge: the dict index (key -> position, 0-based)
    added,         \* merge: the counter added
    replaced,      \* merge: the counter replaced
    out_json,      \* the JSON file written: <<>> until then, <<list>> after
    \* ---- clean_metadata_with_llm.main, clean_metadata_album_with_llm.main ----
    cleaner,       \* which cleaner runs: "metadata", "album" ("none": neither)
    cpc,           \* "idle" (no process), "loop" (inside the item loop)
    args,          \* the parsed command line of the current run
    input_name,    \* input_path.name
    in_items,      \* the input file: its items
    idx,           \* items of the input file already handled
    processed,     \* the counter processed
    updated,       \* the list updated
    cache,         \* the dict cache of the running process
    cache_file,    \* the cache file on disk: <<>> (no file), <<dict>> (a JSON
                   \* object), <<{}, kind>> for a file that holds no JSON object
    cache_type,    \* what cache refers to: "dict", or "list" (then cache is {})
    loaded,        \* history: the kind of cache file each process found
    out_file,      \* the output file: <<>> until a run writes it, then <<list>>
    runs,          \* history: processes started so far
    saved_runs,    \* history: the processes that reached _save_cache
    served,        \* history: one record per item that reached the cache check
    lookups,       \* history: one record per reference lookup that went out
    \* ---- the helper functions of the scripts, called on their own ----
    call,          \* the call: [fn |-> name of the function, a, b |-> its arguments]
    ret            \* what the function returned: <<>> before the call, then <<value>>

buildVars == <<script, pc, rows, nrows, row, base_id, unique_id, counter, used_ids,
               items, id_map, chosen, mp3s, clips, durations, require_all,
               only_preview, overrides, written>>

reconVars == <<tool, rpc, ridx, base_items, incoming_items, duplicate_mode, dry_run,
               base_keys, non_duplicates, duplicates, clips_root, duplicates_dir,
               prefer_second, merged, index, added, replaced, out_json,
               filter_runs>>

cacheVars == <<cleaner, cpc, args, input_name, in_items, idx, processed, updated,
               cache, cache_file, out_file, runs, saved_runs, served, lookups,
               cache_type, loaded>>

callVars == <<call, ret>>

vars == <<buildVars, reconVars, cacheVars, callVars>>

-----------------------------------------------------------------------------
(* Text *)

None == <<"NONE">>

Lower26 == <<"a","b","c","d","e","f","g","h","i","j","k","l","m",
             "n","o","p","q","r","s","t","u","v","w","x","y","z">>
Upper26 == <<"A","B","C","D","E","F","G","H","I","J","K","L","M",
             "N","O","P","Q","R","S","T","U","V","W","X","Y","Z">>
Digit10 == <<"0","1","2","3","4","5","6","7","8","9">>

LowerSet == {Lower26[i] : i \in 1..26}
UpperSet == {Upper26[i] : i \in 1..26}
DigitSet == {Digit10[i] : i \in 1..10}

MinOf(S) == CHOOSE x \in S : \A y \in S : x <= y
MaxOf(S) == CHOOSE x \in S : \A y \in S : x >= y

Rep(c, n) == [i \in 1..n |-> c]

Take(s, n) == SubSeq(s, 1, IF Len(s) < n THEN Len(s) ELSE n)

\* str.lower()
LowerChar(c) == IF c \in UpperSet
                THEN Lower26[CHOOSE i \in 1..26 : Upper26[i] = c]
                ELSE c
ToLower(s) == [i \in 1..Len(s) |-> LowerChar(s[i])]

RECURSIVE FirstOutside(_, _, _)
\* the first index >= i of s whose character is outside cs (Len(s) + 1: none)
FirstOutside(s, cs, i) ==
    IF i > Len(s) \/ s[i] \notin cs THEN i ELSE FirstOutside(s, cs, i + 1)

RECURSIVE LastOutside(_, _, _)
\* the last index <= i of s whose character is outside cs (0: none)
LastOutside(s, cs, i) ==
    IF i < 1 \/ s[i] \notin cs THEN i ELSE LastOutside(s, cs, i - 1)

\* str.strip(chars): drop leading and trailing characters of the set cs
StripChars(s, cs) == SubSeq(s, FirstOutside(s, cs, 1), LastOutside(s, cs, Len(s)))

\* str.strip()
Strip(s) == StripChars(s, {" "})

\* re.sub(r"[^<good>]+", r, s): every maximal run of characters outside good
\* becomes the one character r
ReplaceRunsOutside(s, good, r) ==
    LET marks == [i \in 1..Len(s) |->
                    IF s[i] \in good THEN s[i]
                    ELSE IF i = 1 \/ s[i-1] \in good THEN r ELSE ""]
    IN  SelectSeq(marks, LAMBDA c : c # "")

\* re.sub(r"\s+", " ", s)
CollapseSpaces(s) ==
    LET marks == [i \in 1..Len(s) |->
                    IF s[i] # " " THEN s[i]
                    ELSE IF i = 1 \/ s[i-1] # " " THEN " " ELSE ""]
    IN  SelectSeq(marks, LAMBDA c : c # "")

StartsWith(s, p) == Len(s) >= Len(p) /\ SubSeq(s, 1, Len(p)) = p

RECURSIVE DecStr(_)
\* str(n) for n >= 0
DecStr(n) == IF n < 10 THEN <<Digit10[n + 1]>>
             ELSE DecStr(n \div 10) \o <<Digit10[(n % 10) + 1]>>

-----------------------------------------------------------------------------
(* Helpers shared by the builds and the clip cutter *)

SlugMaxLen == 80
SafeMaxLen == 160

S_song == <<"s","o","n","g">>
S_dup == <<"d","u","p">>
S_audio_preview == <<"a","u","d","i","o","_","p","r","e","v","i","e","w">>
S_spotify_track == <<"s","p","o","t","i","f","y",":","t","r","a","c","k",":">>

\* _slugify with the truncation dropped
SlugifyNoTruncate(value) ==
    LET v  == StripChars(ReplaceRunsOutside(Strip(ToLower(value)),
                                            LowerSet \cup DigitSet, "-"), {"-"})
    IN  IF v = <<>> THEN S_song ELSE v

\* _slugify(value, max_len=80)
Slugify(value) ==
    LET v1 == Strip(ToLower(value))
        v2 == StripChars(ReplaceRunsOutside(v1, LowerSet \cup DigitSet, "-"), {"-"})
        v3 == IF v2 = <<>> THEN S_song ELSE v2
    IN  StripChars(Take(v3, SlugMaxLen), {"-"})

\* _safe_filename(value, max_len=160)
SafeFilename(value) ==
    LET v1 == CollapseSpaces(Strip(value))
        v2 == ReplaceRunsOutside(v1, UpperSet \cup LowerSet \cup DigitSet
                                     \cup {" ", "_", ".", "-"}, "_")
        v3 == StripChars(v2, {" ", ".", "_", "-"})
    IN  IF v3 = <<>> THEN S_audio_preview ELSE Take(v3, SafeMaxLen)

\* _parse_track_id(track_uri)
ParseTrackId(track_uri) ==
    LET u == Strip(track_uri)
    IN  IF StartsWith(u, S_spotify_track)
        THEN LET colons == {i \in 1..Len(u) : u[i] = ":"}
                 last   == SubSeq(u, MaxOf(colons) + 1, Len(u))
             IN  IF last = <<>> THEN None ELSE last
        ELSE None

-----------------------------------------------------------------------------
(* Dictionaries: a Python dict is a function; d[k] = v is DictSet *)

EmptyDict == <<>>
DictSet(d, k, v) == [x \in (DOMAIN d) \cup {k} |-> IF x = k THEN v ELSE d[x]]
DictGet(d, k, default) == IF k \in DOMAIN d THEN d[k] ELSE default

SeqsUpTo(S, n) == UNION {[1..k -> S] : k \in 0..n}

-----------------------------------------------------------------------------
(* The programs that do not run in a specification stay in these states *)

BuildIdle ==
    /\ script = "none" /\ pc = "done" /\ rows = <<>> /\ nrows = 0
    /\ row = <<>> /\ base_id = <<>> /\ unique_id = <<>> /\ counter = 2
    /\ used_ids = {} /\ items = <<>> /\ id_map = EmptyDict /\ chosen = <<>>
    /\ mp3s = {} /\ clips = {} /\ durations = <<>> /\ require_all = FALSE
    /\ only_preview = None /\ overrides = EmptyDict /\ written = None

ReconIdle ==
    /\ tool = "none" /\ rpc = "done" /\ ridx = 0
    /\ base_items = <<>> /\ incoming_items = <<>>
    /\ duplicate_mode = "id" /\ dry_run = FALSE /\ base_keys = {}
    /\ non_duplicates = <<>> /\ duplicates = <<>>
    /\ clips_root = EmptyDict /\ duplicates_dir = EmptyDict
    /\ prefer_second = FALSE /\ merged = <<>> /\ index = EmptyDict
    /\ added = 0 /\ replaced = 0 /\ out_json = <<>> /\ filter_runs = 0

CacheIdle ==
    /\ cleaner = "none" /\ cpc = "idle" /\ args = EmptyDict /\ input_name = <<>>
    /\ in_items = <<>> /\ idx = 0 /\ processed = 0 /\ updated = <<>>
    /\ cache = EmptyDict /\ cache_file = <<>> /\ out_file = <<>>
    /\ runs = 0 /\ saved_runs = {} /\ served = <<>> /\ lookups = <<>>
    /\ cache_type = "dict" /\ loaded = <<>>

CallIdle == call = [fn |-> "none", a |-> <<>>, b |-> <<>>] /\ ret = <<>>

-----------------------------------------------------------------------------
(* Identity assignment: build_english_metadata.main 170-180,               *)
(* build_tamil_metadata.main 336-344, cut_audio_clips._build_id_map 115-122 *)

\* the membership test with an id never seen as taken
InUsedNever(id, used) == id \in {}

\* "unique_id in used_ids"
InUsed(id, used) == id \in used

\* suffix = track_id[:8] if track_id else "dup"
DupSuffix(track_id) == IF track_id # None THEN Take(track_id, 8) ELSE S_dup

\* unique_id = base_id; if unique_id in used_ids: unique_id = _slugify(f"{base_id}-{suffix}")
FirstCandidate(base, suffix, used) ==
    IF InUsed(base, used) THEN Slugify(base \o <<"-">> \o suffix) ELSE base

\* unique_id = _slugify(f"{base_id}-{counter}")
CounterCandidate(base, n) == Slugify(base \o <<"-">> \o DecStr(n))

-----------------------------------------------------------------------------
(* Asset resolution: _select_preview_base and the clip enumeration *)

\* _select_preview_base with the last existing candidate winning
SelectPreviewBaseLast(candidates, lang_dir) ==
    LET hits == {i \in 1..Len(candidates) :
                    candidates[i] # <<>> /\ candidates[i] \in lang_dir}
    IN  IF hits = {} THEN None ELSE candidates[MaxOf(hits)]

\* _select_preview_base(candidates, lang_dir=...): lang_dir is the set of
\* names n whose <n>.mp3 exists
SelectPreviewBase(candidates, lang_dir) ==
    LET hits == {i \in 1..Len(candidates) :
                    candidates[i] # <<>> /\ candidates[i] \in lang_dir}
    IN  IF hits = {} THEN None ELSE candidates[MinOf(hits)]

\* candidates = [unique_id]; if track_id: append; if unique_id == base_id: append(base)
Candidates(uid, bid, track_id, base) ==
    <<uid>> \o (IF track_id # None THEN <<track_id>> ELSE <<>>)
            \o (IF uid = bid THEN <<base>> ELSE <<>>)

\* the loop without its test of clip_path.exists()
EnumerateClipsAll(preview_base, durs, clip_root) ==
    [d \in {durs[i] : i \in 1..Len(durs)} |-> <<preview_base, d>>]

\* the loop "for d in durations: if clip_path.exists(): audio[str(d)] = ..."
\* the dict audio maps a duration to its clip's place <<preview_base, d>>
EnumerateClips(preview_base, durs, clip_root) ==
    [d \in {durs[i] : i \in 1..Len(durs)} \cap {d \in Int : <<preview_base, d>> \in clip_root}
        |-> <<preview_base, d>>]

-----------------------------------------------------------------------------
(* build_tamil_metadata: text heuristics *)

\* the places where lit occurs in t
Occ(t, lit) == {i \in 1..(Len(t) - Len(lit) + 1) : SubSeq(t, i, i + Len(lit) - 1) = lit}

Contains(t, lit) == Occ(t, lit) # {}

\* first index of the run of spaces that ends at j (j + 1 when t[j] is no space)
WsStart(t, j) == LastOutside(t, {" "}, j) + 1

\* last index of the run of spaces that starts at j (j - 1 when t[j] is no space)
WsEnd(t, j) == FirstOutside(t, {" "}, j) - 1

\* _QUOTE_CHARS; the two curly quotes are the tokens LDQUO and RDQUO
QuoteChars == {"\"", "'", "LDQUO", "RDQUO"}

\* _normalize_title(value) of build_tamil_metadata
NormalizeTitleTa(value) == CollapseSpaces(Strip(value))

\* where "(From" followed by white space starts in t (re.IGNORECASE)
FromStarts(t) ==
    {i \in Occ(ToLower(t), <<"(","f","r","o","m">>) : i + 5 <= Len(t) /\ t[i + 5] = " "}

\* _FROM_PATTERNS[0] matched at i: the closing places of the quoted movie
QuotedClosers(t, i) ==
    LET q == WsEnd(t, i + 5) + 1
    IN  IF q > Len(t) \/ t[q] \notin QuoteChars THEN {}
        ELSE {k \in (q + 2)..(Len(t) - 1) : t[k] = t[q] /\ t[k + 1] = ")"}

\* _FROM_PATTERNS[1] matched at i: the place of the first ")" when the
\* pattern matches there, 0 otherwise
UnquotedCloser(t, i) ==
    LET closers == {k \in (i + 6)..Len(t) : t[k] = ")"}
    IN  IF closers = {} \/ MinOf(closers) < i + 7 THEN 0 ELSE MinOf(closers)

\* _extract_movie_from_text(text)
ExtractMovieFromText(text) ==
    LET t  == Strip(text)
        p0 == {i \in FromStarts(t) : QuotedClosers(t, i) # {}}
        p1 == {i \in FromStarts(t) : UnquotedCloser(t, i) # 0}
        raw == IF p0 # {}
               THEN LET i == MinOf(p0)
                    IN  SubSeq(t, WsEnd(t, i + 5) + 2, MinOf(QuotedClosers(t, i)) - 1)
               ELSE IF p1 # {}
               THEN LET i == MinOf(p1)
                        k == UnquotedCloser(t, i)
                        e == WsEnd(t, i + 5)
                    IN  IF e + 1 <= k - 1 THEN SubSeq(t, e + 1, k - 1)
                        ELSE SubSeq(t, k - 1, k - 1)
               ELSE <<>>
        movie == NormalizeTitleTa(raw)
    IN  IF t = <<>> \/ movie = <<>> THEN None ELSE movie

\* _COMPILATION_HINTS
CompilationHints ==
    { <<"h","i","t","s">>, <<"b","e","s","t"," ","o","f">>, <<"m","i","x">>, <<"p","l","a","y","b","a","c","k">>, <<"l","o","v","e">>, <<"m","e","l","o","d","i","e","s">>,
      <<"v","o","l",".">>, <<"v","o","l","u","m","e">>, <<"l","e","v","e","l">>, <<"c","h","i","l","l">>, <<"m","a","s","s">>, <<"s","i","n","g","e","r"," ","s","p","e","c","i","a","l">>,
      <<"t","r","e","n","d","i","n","g">>, <<"r","a","d","i","o">>, <<"t","o","p">>, <<"d","a","n","c","e">> }

\* _is_compilation_album(album)
IsCompilationAlbum(album) ==
    \E hint \in CompilationHints : Contains(ToLower(album), hint)

S_omps_paren == <<"(","o","r","i","g","i","n","a","l"," ","m","o","t","i","o","n"," ","p","i","c","t","u","r","e"," ","s","o","u","n","d","t","r","a","c","k",")">>
S_omps == <<"o","r","i","g","i","n","a","l"," ","m","o","t","i","o","n"," ","p","i","c","t","u","r","e"," ","s","o","u","n","d","t","r","a","c","k">>

RECURSIVE SubSoundtrackParen(_)
\* _SOUNDTRACK_STRIP_PATTERNS[0].sub(" ", t): every occurrence, with the
\* white space around it, becomes one space
SubSoundtrackParen(t) ==
    LET occ == Occ(ToLower(t), S_omps_paren)
    IN  IF occ = {} THEN t
        ELSE LET i == MinOf(occ)
                 a == WsStart(t, i - 1)
                 b == WsEnd(t, i + Len(S_omps_paren))
             IN  SubSeq(t, 1, a - 1) \o <<" ">>
                    \o SubSoundtrackParen(SubSeq(t, b + 1, Len(t)))

RECURSIVE MatchBack(_, _, _, _)
\* a pattern \s*tok1\s*tok2...\s*$ matched backwards from end: the index
\* where the match starts, 0 when there is none
MatchBack(lower, end, tokens, k) ==
    LET e   == WsStart(lower, end) - 1
        tok == tokens[k]
        s   == e - Len(tok) + 1
    IN  IF s < 1 \/ SubSeq(lower, s, e) # tok THEN 0
        ELSE IF k = 1 THEN WsStart(lower, s - 1)
        ELSE MatchBack(lower, s - 1, tokens, k - 1)

\* pat.sub(" ", t) for a pattern anchored at the end
SubSuffix(t, tokens) ==
    LET s == MatchBack(ToLower(t), Len(t), tokens, Len(tokens))
    IN  IF s = 0 THEN t ELSE SubSeq(t, 1, s - 1) \o <<" ">>

\* _clean_album_to_movie(album)
CleanAlbumToMovie(album) ==
    LET a0 == NormalizeTitleTa(album)
        a1 == SubSoundtrackParen(a0)
        a2 == SubSuffix(a1, <<S_omps_paren, <<"-">>, <<"t","a","m","i","l">>>>)
        a3 == SubSuffix(a2, <<<<"-">>, S_omps>>)
        a4 == NormalizeTitleTa(a3)
    IN  IF a0 = <<>> THEN None
        ELSE IF IsCompilationAlbum(a0) THEN None
        ELSE IF a4 = <<>> THEN None ELSE a4

\* the cascade of line 335 with the album asked before the title
InferMovieAlbumFirst(title, album) ==
    IF ExtractMovieFromText(album) # None THEN ExtractMovieFromText(album)
    ELSE IF ExtractMovieFromText(title) # None THEN ExtractMovieFromText(title)
    ELSE CleanAlbumToMovie(album)

\* line 335: _extract_movie_from_text(title) or _extract_movie_from_text(album)
\*           or _clean_album_to_movie(album)
InferMovie(title, album) ==
    IF ExtractMovieFromText(title) # None THEN ExtractMovieFromText(title)
    ELSE IF ExtractMovieFromText(album) # None THEN ExtractMovieFromText(album)
    ELSE CleanAlbumToMovie(album)

RECURSIVE SplitOn(_, _)
\* str.split on any character of seps
SplitOn(s, seps) ==
    LET cuts == {i \in 1..Len(s) : s[i] \in seps}
    IN  IF cuts = {} THEN <<s>>
        ELSE <<SubSeq(s, 1, MinOf(cuts) - 1)>>
                \o SplitOn(SubSeq(s, MinOf(cuts) + 1, Len(s)), seps)

StripEach(parts) == [i \in 1..Len(parts) |-> Strip(parts[i])]
NonEmptyParts(parts) == SelectSeq(StripEach(parts), LAMBDA p : p # <<>>)

\* _split_people(value) of build_tamil_metadata
SplitPeopleTa(value) ==
    IF Strip(value) = <<>> THEN <<>>
    ELSE NonEmptyParts(SplitOn(Strip(value), {";", ",", "|", "/"}))

\* _parse_artists_field(artists)
ParseArtistsField(artists) ==
    LET a == Strip(artists)
        parts == NonEmptyParts(SplitOn(a, {";"}))
    IN  IF a = <<>> THEN <<>> ELSE IF parts # <<>> THEN parts ELSE <<a>>

\* _KNOWN_MUSIC_DIRECTORS, as pairs <<key, display name>>
KnownMusicDirectors ==
    { <<<<"a"," ","r"," ","r","a","h","m","a","n">>, <<"A","."," ","R","."," ","R","a","h","m","a","n">>>>,
      <<<<"a","r"," ","r","a","h","m","a","n">>, <<"A","."," ","R","."," ","R","a","h","m","a","n">>>>,
      <<<<"a",".","r","."," ","r","a","h","m","a","n">>, <<"A","."," ","R","."," ","R","a","h","m","a","n">>>>,
      <<<<"i","l","a","i","y","a","r","a","a","j","a">>, <<"I","l","a","i","y","a","r","a","a","j","a">>>>,
      <<<<"i","l","a","y","a","r","a","j","a">>, <<"I","l","a","i","y","a","r","a","a","j","a">>>>,
      <<<<"h","a","r","r","i","s"," ","j","a","y","a","r","a","j">>, <<"H","a","r","r","i","s"," ","J","a","y","a","r","a","j">>>>,
      <<<<"y","u","v","a","n"," ","s","h","a","n","k","a","r"," ","r","a","j","a">>, <<"Y","u","v","a","n"," ","S","h","a","n","k","a","r"," ","R","a","j","a">>>>,
      <<<<"a","n","i","r","u","d","h"," ","r","a","v","i","c","h","a","n","d","e","r">>, <<"A","n","i","r","u","d","h"," ","R","a","v","i","c","h","a","n","d","e","r">>>>,
      <<<<"a","n","i","r","u","d","h">>, <<"A","n","i","r","u","d","h"," ","R","a","v","i","c","h","a","n","d","e","r">>>>,
      <<<<"g"," ","v"," ","p","r","a","k","a","s","h">>, <<"G","."," ","V","."," ","P","r","a","k","a","s","h">>>>,
      <<<<"g","."," ","v","."," ","p","r","a","k","a","s","h">>, <<"G","."," ","V","."," ","P","r","a","k","a","s","h">>>>,
      <<<<"g"," ","v"," ","p","r","a","k","a","s","h"," ","k","u","m","a","r">>, <<"G","."," ","V","."," ","P","r","a","k","a","s","h">>>>,
      <<<<"d"," ","i","m","m","a","n">>, <<"D","."," ","I","m","m","a","n">>>>,
      <<<<"d","."," ","i","m","m","a","n">>, <<"D","."," ","I","m","m","a","n">>>>,
      <<<<"s","a","n","t","h","o","s","h"," ","n","a","r","a","y","a","n","a","n">>, <<"S","a","n","t","h","o","s","h"," ","N","a","r","a","y","a","n","a","n">>>>,
      <<<<"v","i","j","a","y"," ","a","n","t","o","n","y">>, <<"V","i","j","a","y"," ","A","n","t","o","n","y">>>>,
      <<<<"g","h","i","b","r","a","n">>, <<"G","h","i","b","r","a","n">>>>,
      <<<<"h","i","p","h","o","p"," ","t","a","m","i","z","h","a">>, <<"H","i","p","h","o","p"," ","T","a","m","i","z","h","a">>>>,
      <<<<"s","a","m"," ","c"," ","s">>, <<"S","a","m"," ","C",".","S",".">>>>,
      <<<<"s","a","m"," ","c",".","s",".">>, <<"S","a","m"," ","C",".","S",".">>>>,
      <<<<"g","o","v","i","n","d"," ","v","a","s","a","n","t","h","a">>, <<"G","o","v","i","n","d"," ","V","a","s","a","n","t","h","a">>>>,
      <<<<"j","u","s","t","i","n"," ","p","r","a","b","h","a","k","a","r","a","n">>, <<"J","u","s","t","i","n"," ","P","r","a","b","h","a","k","a","r","a","n">>>>,
      <<<<"d","a","r","b","u","k","a"," ","s","i","v","a">>, <<"D","a","r","b","u","k","a"," ","S","i","v","a">>>> }

\* _KNOWN_LYRICISTS
KnownLyricists ==
    { <<"v","a","i","r","a","m","u","t","h","u">>, <<"t","h","a","m","a","r","a","i">>, <<"n","a","."," ","m","u","t","h","u","k","u","m","a","r">>, <<"n","a",".","m","u","t","h","u","k","u","m","a","r">>,
      <<"m","a","d","h","a","n"," ","k","a","r","k","y">>, <<"m","a","d","h","a","n"," ","k","a","r","k","i">>, <<"v","i","v","e","k">>, <<"g","a","n","g","a","i"," ","a","m","a","r","a","n">>,
      <<"u","m","a"," ","d","e","v","i">>, <<"v","a","a","l","i">>, <<"p","a","."," ","v","i","j","a","y">>, <<"k","a","r","k","y">> }

\* _canon_person(value)
CanonPerson(value) ==
    LET v1 == CollapseSpaces(Strip(ToLower(value)))
        v2 == SelectSeq(v1, LAMBDA c : c # ".")
        v3 == [i \in 1..Len(v2) |-> IF v2[i] = "_" THEN " " ELSE v2[i]]
    IN  Strip(v3)

\* _guess_music_director(artists_list)
GuessMusicDirector(artists_list) ==
    LET known == {i \in 1..Len(artists_list) :
                    \E p \in KnownMusicDirectors : p[1] = CanonPerson(artists_list[i])}
    IN  IF known = {} THEN None
        ELSE (CHOOSE p \in KnownMusicDirectors :
                p[1] = CanonPerson(artists_list[MinOf(known)]))[2]

\* _guess_singers: lyricists_canon = {_canon_person(x) for x in _KNOWN_LYRICISTS}
LyricistsCanon == {CanonPerson(x) : x \in KnownLyricists}

\* _guess_singers returning others even when it is empty
GuessSingersDropDirector(artists_list, music_director) ==
    LET keep == StripEach(SelectSeq(artists_list,
                    LAMBDA a : CanonPerson(a) \notin LyricistsCanon))
    IN  IF music_director # None
        THEN SelectSeq(keep, LAMBDA a : CanonPerson(a) # CanonPerson(music_director))
        ELSE keep

\* _guess_singers(artists_list, music_director)
GuessSingers(artists_list, music_director) ==
    LET lyricists_canon == LyricistsCanon
        keep == StripEach(SelectSeq(artists_list,
                    LAMBDA a : CanonPerson(a) \notin lyricists_canon))
        others == SelectSeq(keep, LAMBDA a : CanonPerson(a) # CanonPerson(music_director))
    IN  IF keep = <<>> THEN <<>>
        ELSE IF music_director # None
        THEN (IF others # <<>> THEN others ELSE keep)
        ELSE keep

-----------------------------------------------------------------------------
(* Inputs of the builds: CSV rows, the audio directory, the options *)

MaxRows == 3
MaxCounter == 4

S_A == <<"A">>
S_x == <<"x">>
S_x_2 == <<"x", " ", "2">>
S_tid == <<"t","1","2","3","4","5","6","7","8">>
S_uri == S_spotify_track \o S_tid
S_a_x == <<"a","-","x">>
S_legacy == <<"A"," ","-"," ","x">>

CsvRow(title, album, artists, uri) ==
    [title |-> title, album |-> album, artists |-> artists, uri |-> uri]

\* rows whose slugs collide exactly, collide with a suffixed slug, or fill
\* the 80 characters _slugify keeps; and a row the loop skips
IdRowMenu ==
    { CsvRow(S_x, <<>>, S_A, S_uri),
      CsvRow(S_x \o <<" ">>, <<>>, S_A, <<>>),
      CsvRow(S_x_2, <<>>, S_A, <<>>),
      CsvRow(Rep("y", SlugMaxLen - 2), <<>>, S_A, S_uri),
      CsvRow(S_x, <<>>, <<>>, <<>>) }

S_y == <<"y">>
S_M == <<"M">>
S_uri2 == <<"l","o","c","a","l",":","2">>
S_uri3 == <<"l","o","c","a","l",":","3">>

\* Tamil rows: the slug is the title's; a row without a spotify uri takes
\* its suffix from the movie or album
TamilRowMenu ==
    { CsvRow(S_x, <<>>, S_A, S_uri),
      CsvRow(S_x, S_M, S_A, S_uri2),
      CsvRow(<<"x"," ","m">>, <<>>, S_A, S_uri3),
      CsvRow(Rep("y", SlugMaxLen), <<>>, S_A, S_uri),
      CsvRow(S_x, <<>>, S_A, <<>>) }

MaxOverrides == 2

OvRow(track_uri, id, singers, skip) ==
    [track_uri |-> track_uri, id |-> id, title |-> <<>>, movie |-> <<>>,
     album |-> <<>>, music_director |-> <<>>, singers |-> singers,
     hero |-> <<>>, heroine |-> <<>>, skip |-> skip]

TamilOvRowMenu ==
    { CsvRow(S_x, <<>>, <<"X">>, S_uri),
      CsvRow(S_y, S_M, S_A, S_uri2),
      CsvRow(S_x, <<>>, S_A, S_uri3) }

OverrideRowMenu ==
    { OvRow(S_uri2, S_x, <<>>, <<>>),
      OvRow(S_uri, <<>>, <<"Y",",","Z">>, <<>>),
      OvRow(S_uri3, <<"z">>, <<>>, <<>>),
      OvRow(S_uri3, <<>>, <<>>, <<"Y","e","s">>) }

Mp3Pool == {S_a_x, S_tid, S_legacy}

-----------------------------------------------------------------------------
(* The row loops *)

Append1(seq, e) == seq \o <<e>>

NextRow == rows[nrows + 1]

\* "row.get(<column>) or ''": csv.DictReader gives a row no key for a column
\* that the header line lacks
Field(r, column) == IF column \in DOMAIN r THEN r[column] ELSE <<>>

\* build_english_metadata.main 162-180: one CSV row up to the while loop
EnglishRow ==
    /\ script = "english" /\ pc = "row" /\ nrows < Len(rows)
    /\ LET title    == Strip(Field(NextRow, "title"))
           album    == Strip(Field(NextRow, "album"))
           artists  == Strip(Field(NextRow, "artists"))
           uri      == Strip(Field(NextRow, "uri"))
           track_id == ParseTrackId(uri)
           bid      == Slugify(artists \o <<"-">> \o title)
       IN  /\ nrows' = nrows + 1
           /\ IF title = <<>> \/ artists = <<>>
              THEN UNCHANGED <<pc, row, base_id, unique_id, counter>>
              ELSE /\ row' = CsvRow(title, album, artists, uri)
                   /\ base_id' = bid
                   /\ unique_id' = FirstCandidate(bid, DupSuffix(track_id), used_ids)
                   /\ counter' = 2
                   /\ pc' = "while"
    /\ UNCHANGED <<script, rows, used_ids, items, id_map, chosen, mp3s, clips,
                   durations, require_all, only_preview, overrides, written>>
    /\ UNCHANGED <<reconVars, cacheVars, callVars>>

\* cut_audio_clips._build_id_map 101-119: one CSV row up to the while loop
CutRow ==
    /\ script \in {"cut_english", "cut_tamil"} /\ pc = "row" /\ nrows < Len(rows)
    /\ LET title    == Strip(Field(NextRow, "title"))
           artist   == Strip(Field(NextRow, "artists"))
           track_id == ParseTrackId(Field(NextRow, "uri"))
           bid      == IF script = "cut_tamil" THEN Slugify(title)
                       ELSE Slugify(artist \o <<"-">> \o title)
       IN  /\ nrows' = nrows + 1
           /\ IF title = <<>> \/ (script = "cut_english" /\ artist = <<>>)
              THEN UNCHANGED <<pc, row, base_id, unique_id, counter>>
              ELSE /\ row' = CsvRow(title, <<>>, artist, Field(NextRow, "uri"))
                   /\ base_id' = bid
                   /\ unique_id' = FirstCandidate(bid, DupSuffix(track_id), used_ids)
                   /\ counter' = 2
                   /\ pc' = "while"
    /\ UNCHANGED <<script, rows, used_ids, items, id_map, chosen, mp3s, clips,
                   durations, require_all, only_preview, overrides, written>>
    /\ UNCHANGED <<reconVars, cacheVars, callVars>>

\* one iteration of "while unique_id in used_ids:" (all three scripts)
WhileStep ==
    /\ pc = "while" /\ InUsed(unique_id, used_ids)
    /\ counter <= MaxCounter
    /\ unique_id' = CounterCandidate(base_id, counter)
    /\ counter' = counter + 1
    /\ UNCHANGED <<script, pc, nrows, rows, row, base_id, used_ids, items, id_map,
                   chosen, mp3s, clips, durations, require_all, only_preview,
                   overrides, written>>
    /\ UNCHANGED <<reconVars, cacheVars, callVars>>

\* build_english_metadata.main 182-222: the rest of the row, after the loop
EnglishAdmit ==
    /\ script = "english" /\ pc = "while" /\ ~InUsed(unique_id, used_ids)
    /\ LET track_id     == ParseTrackId(row.uri)
           base         == SafeFilename(row.artists \o <<" ", "-", " ">> \o row.title)
           candidates   == Candidates(unique_id, base_id, track_id, base)
           preview_base == SelectPreviewBase(candidates, mp3s)
           audio        == EnumerateClips(preview_base, durations, clips)
           admit        == /\ preview_base # None
                           /\ ~(only_preview \notin {None, <<>>} /\ preview_base # only_preview)
                           /\ ~(require_all /\ Cardinality(DOMAIN audio) # Len(durations))
                           /\ DOMAIN audio # {}
       IN  /\ chosen' = Append1(chosen,
                [n |-> nrows, row |-> row, id |-> unique_id, base_id |-> base_id,
                 out_id |-> unique_id,
                 fresh |-> unique_id \notin used_ids, emitted |-> admit,
                 candidates |-> candidates, preview |-> preview_base,
                 audio |-> IF preview_base = None THEN EmptyDict ELSE audio])
           /\ IF admit
              THEN /\ used_ids' = used_ids \cup {unique_id}
                   /\ items' = Append1(items,
                        [id |-> unique_id, title |-> row.title, album |-> row.album,
                         audio |-> audio])
              ELSE UNCHANGED <<used_ids, items>>
    /\ pc' = "row"
    /\ UNCHANGED <<script, nrows, rows, row, base_id, unique_id, counter, id_map,
                   mp3s, clips, durations, require_all, only_preview, overrides,
                   written>>
    /\ UNCHANGED <<reconVars, cacheVars, callVars>>

\* cut_audio_clips._build_id_map 123-130
CutRegister ==
    /\ script \in {"cut_english", "cut_tamil"} /\ pc = "while"
    /\ ~InUsed(unique_id, used_ids)
    /\ LET track_id == ParseTrackId(row.uri)
           legacy   == SafeFilename(row.artists \o <<" ", "-", " ">> \o row.title)
           m1       == DictSet(id_map, unique_id, unique_id)
           m2       == IF row.artists # <<>> THEN DictSet(m1, legacy, unique_id) ELSE m1
           m3       == IF track_id # None THEN DictSet(m2, track_id, unique_id) ELSE m2
       IN  /\ id_map' = m3
           /\ chosen' = Append1(chosen,
                [n |-> nrows, row |-> row, id |-> unique_id, base_id |-> base_id,
                 out_id |-> unique_id,
                 fresh |-> unique_id \notin used_ids, emitted |-> TRUE,
                 candidates |-> <<>>, preview |-> None, audio |-> EmptyDict])
    /\ used_ids' = used_ids \cup {unique_id}
    /\ pc' = "row"
    /\ UNCHANGED <<script, nrows, rows, row, base_id, unique_id, counter, items,
                   mp3s, clips, durations, require_all, only_preview, overrides,
                   written>>
    /\ UNCHANGED <<reconVars, cacheVars, callVars>>

\* build_tamil_metadata._load_overrides: the rows of the overrides file,
\* each [track_uri, id, title, movie, album, music_director, singers, hero,
\* heroine, skip], "" for an empty cell
OvFields == {"id", "title", "movie", "album", "music_director", "singers",
             "hero", "heroine", "skip"}

RECURSIVE LoadOverridesFrom(_, _)
LoadOverridesFrom(ovrows, acc) ==
    IF ovrows = <<>> THEN acc
    ELSE LET r == Head(ovrows)
             track_uri == Strip(r.track_uri)
             cells == [k \in OvFields |-> Strip(r[k])]
         IN  LoadOverridesFrom(Tail(ovrows),
                IF track_uri = <<>> THEN acc ELSE DictSet(acc, track_uri, cells))

LoadOverrides(ovrows) == LoadOverridesFrom(ovrows, EmptyDict)

SkipValues == { <<"1">>, <<"t","r","u","e">>, <<"y","e","s">>, <<"y">> }

\* the override pass with the id column ignored
OverrideFieldNoId(item, ov, field) ==
    IF field = "singers"
    THEN (IF ov[field] # <<>> THEN SplitPeopleTa(ov[field]) ELSE item[field])
    ELSE (IF ov[field] # <<>> /\ field # "id" THEN ov[field] ELSE item[field])

\* lines 396-411: "if ov.get(f): item[f] = ov[f]" (singers through _split_people)
OverrideField(item, ov, field) ==
    IF field = "singers"
    THEN (IF ov[field] # <<>> THEN SplitPeopleTa(ov[field]) ELSE item[field])
    ELSE (IF ov[field] # <<>> THEN ov[field] ELSE item[field])

\* lines 396-411 for all eight fields
ApplyOverride(item, ov) ==
    [f \in DOMAIN item |->
        IF f \in OvFields \ {"skip"} THEN OverrideField(item, ov, f) ELSE item[f]]

\* build_tamil_metadata.main 335-338, 378-390: the record of a row as the
\* heuristics make it, before the override pass
HeuristicItem(r, uid, audio) ==
    LET movie          == InferMovie(r.title, r.album)
        artists_list   == ParseArtistsField(r.artists)
        music_director == GuessMusicDirector(artists_list)
    IN  [id |-> uid, title |-> r.title, movie |-> movie,
         album |-> IF movie = None THEN r.album ELSE None,
         music_director |-> music_director,
         singers |-> GuessSingers(artists_list, music_director),
         hero |-> None, heroine |-> None,
         audio |-> audio, track_uri |-> r.uri]

\* build_tamil_metadata.main 323-344: one CSV row up to the while loop
TamilRow ==
    /\ script = "tamil" /\ pc = "row" /\ nrows < Len(rows)
    /\ LET track_uri   == Strip(Field(NextRow, "uri"))
           title       == NormalizeTitleTa(Field(NextRow, "title"))
           album       == NormalizeTitleTa(Field(NextRow, "album"))
           artists_raw == Strip(Field(NextRow, "artists"))
           track_id    == ParseTrackId(track_uri)
           movie       == InferMovie(title, album)
           bid         == Slugify(title)
           slug        == Slugify(IF movie # None THEN movie ELSE album)
           suffix      == IF track_id # None THEN Take(track_id, 8)
                          ELSE IF slug # <<>> THEN slug ELSE S_dup
       IN  /\ nrows' = nrows + 1
           /\ IF track_uri = <<>> \/ title = <<>> \/ artists_raw = <<>>
              THEN UNCHANGED <<pc, row, base_id, unique_id, counter>>
              ELSE /\ row' = CsvRow(title, album, artists_raw, track_uri)
                   /\ base_id' = bid
                   /\ unique_id' = FirstCandidate(bid, suffix, used_ids)
                   /\ counter' = 2
                   /\ pc' = "while"
    /\ UNCHANGED <<script, rows, used_ids, items, id_map, chosen, mp3s, clips,
                   durations, require_all, only_preview, overrides, written>>
    /\ UNCHANGED <<reconVars, cacheVars, callVars>>

\* build_tamil_metadata.main 346-414: the rest of the row, after the loop
TamilAdmit ==
    /\ script = "tamil" /\ pc = "while" /\ ~InUsed(unique_id, used_ids)
    /\ LET track_id     == ParseTrackId(row.uri)
           base         == SafeFilename(row.artists \o <<" ", "-", " ">> \o row.title)
           candidates   == Candidates(unique_id, base_id, track_id, base)
           preview_base == SelectPreviewBase(candidates, mp3s)
           audio        == EnumerateClips(preview_base, durations, clips)
           has_audio    == /\ preview_base # None
                           /\ ~(require_all /\ Cardinality(DOMAIN audio) # Len(durations))
                           /\ DOMAIN audio # {}
           item    == HeuristicItem(row, unique_id, audio)
           has_ov  == row.uri \in DOMAIN overrides
           skipped == has_ov /\ ToLower(overrides[row.uri]["skip"]) \in SkipValues
           final   == IF has_ov THEN ApplyOverride(item, overrides[row.uri]) ELSE item
           admit   == has_audio /\ ~skipped
       IN  /\ chosen' = Append1(chosen,
                [n |-> nrows, row |-> row, id |-> unique_id, base_id |-> base_id,
                 out_id |-> IF admit THEN final.id ELSE unique_id,
                 fresh |-> unique_id \notin used_ids, emitted |-> admit,
                 candidates |-> candidates, preview |-> preview_base,
                 audio |-> IF preview_base = None THEN EmptyDict ELSE audio])
           /\ IF admit
              THEN /\ used_ids' = used_ids \cup {final.id}
                   /\ items' = Append1(items, final)
              ELSE UNCHANGED <<used_ids, items>>
    /\ pc' = "row"
    /\ UNCHANGED <<script, nrows, rows, row, base_id, unique_id, counter, id_map,
                   mp3s, clips, durations, require_all, only_preview, overrides,
                   written>>
    /\ UNCHANGED <<reconVars, cacheVars, callVars>>

\* build_*_metadata.main: "json.dump(items, f)" after the loop
WriteCatalog ==
    /\ script \in {"english", "tamil"} /\ pc = "row" /\ nrows = Len(rows)
    /\ written' = items
    /\ pc' = "done"
    /\ UNCHANGED <<script, nrows, rows, row, base_id, unique_id, counter, used_ids,
                   items, id_map, chosen, mp3s, clips, durations, require_all,
                   only_preview, overrides>>
    /\ UNCHANGED <<reconVars, cacheVars, callVars>>

\* cut_audio_clips._build_id_map 132: return id_map
ReturnIdMap ==
    /\ script \in {"cut_english", "cut_tamil"} /\ pc = "row" /\ nrows = Len(rows)
    /\ pc' = "done"
    /\ UNCHANGED <<script, nrows, rows, row, base_id, unique_id, counter, used_ids,
                   items, id_map, chosen, mp3s, clips, durations, require_all,
                   only_preview, overrides, written>>
    /\ UNCHANGED <<reconVars, cacheVars, callVars>>

\* cut_audio_clips.main 249-255: for every mp3 of the language folder the
\* clips of every duration are written into clips/<id_map.get(stem, stem)>
CutClips ==
    /\ script \in {"cut_english", "cut_tamil"} /\ pc = "done"
    /\ clips' = clips \cup {<<DictGet(id_map, stem, stem), durations[j]>> :
                                stem \in mp3s, j \in 1..Len(durations)}
    /\ pc' = "cut"
    /\ UNCHANGED <<script, nrows, rows, row, base_id, unique_id, counter, used_ids,
                   items, id_map, chosen, mp3s, durations, require_all,
                   only_preview, overrides, written>>
    /\ UNCHANGED <<reconVars, cacheVars, callVars>>

\* the build of the language is started over the same CSV and audio folder
\* once the clips are cut (build_english_metadata.main 157-158)
StartBuild ==
    /\ script = "cut_english" /\ pc = "cut"
    /\ script' = "english"
    /\ pc' = "row" /\ nrows' = 0
    /\ row' = CsvRow(<<>>, <<>>, <<>>, <<>>)
    /\ base_id' = <<>> /\ unique_id' = <<>> /\ counter' = 2
    /\ used_ids' = {} /\ items' = <<>> /\ chosen' = <<>>
    /\ UNCHANGED <<rows, id_map, mp3s, clips, durations, require_all, only_preview,
                   overrides, written>>
    /\ UNCHANGED <<reconVars, cacheVars, callVars>>

NextBuild ==
    \/ EnglishRow
    \/ EnglishAdmit
    \/ TamilRow
    \/ TamilAdmit
    \/ CutRow
    \/ CutRegister
    \/ WhileStep
    \/ WriteCatalog
    \/ ReturnIdMap

NextTamil ==
    \/ TamilRow
    \/ TamilAdmit
    \/ WhileStep
    \/ WriteCatalog

NextEnglish ==
    \/ EnglishRow
    \/ EnglishAdmit
    \/ WhileStep
    \/ WriteCatalog

\* the state both builds and the id map start from (lines 157-158, 84-85)
LoopStart ==
    /\ pc = "row" /\ nrows = 0
    /\ row = CsvRow(<<>>, <<>>, <<>>, <<>>)
    /\ base_id = <<>> /\ unique_id = <<>> /\ counter = 2
    /\ used_ids = {} /\ items = <<>> /\ id_map = EmptyDict
    /\ chosen = <<>> /\ written = None
    /\ ReconIdle /\ CacheIdle /\ CallIdle

\* identity assignment: many rows, every preview's clip on disk
InitIds ==
    /\ LoopStart
    /\ script \in {"english", "tamil", "cut_english", "cut_tamil"}
    /\ rows \in SeqsUpTo(IF script = "tamil" THEN TamilRowMenu ELSE IdRowMenu, MaxRows)
    /\ mp3s \in (CASE script = "english" -> SUBSET {S_a_x, S_tid}
                   [] script = "tamil"   -> SUBSET {S_x, S_tid}
                   [] OTHER              -> {{}})
    /\ clips = {<<n, 1>> : n \in mp3s}
    /\ durations = <<1>>
    /\ require_all = FALSE
    /\ only_preview = None
    /\ overrides = EmptyDict

SpecIds == InitIds /\ [][NextBuild]_vars

\* the Tamil build with an overrides file
InitTamil ==
    /\ LoopStart
    /\ script = "tamil"
    /\ rows \in SeqsUpTo(TamilOvRowMenu, MaxRows)
    /\ mp3s = {S_x, S_y, S_tid}
    /\ clips \in {{<<n, 1>> : n \in mp3s}, {<<S_x, 1>>}}
    /\ durations = <<1>>
    /\ require_all = FALSE
    /\ only_preview = None
    /\ \E ovrows \in SeqsUpTo(OverrideRowMenu, MaxOverrides) :
            overrides = LoadOverrides(ovrows)

SpecTamil == InitTamil /\ [][NextTamil]_vars

-----------------------------------------------------------------------------
(* Identity assignment: properties *)

ProbeLimit == 120

Emitted == {i \in 1..Len(chosen) : chosen[i].emitted}

\* C1: in one run of the English build's loop or of _build_id_map, no two
\* emitted records have the same id; each id was outside used_ids when it was
\* chosen; used_ids holds every id emitted so far (and the catalog's ids are
\* the emitted ids, in order).
C1_EmittedIdsUnique ==
    script \in {"english", "cut_english", "cut_tamil"} =>
        /\ \A i, j \in Emitted : i < j => chosen[i].out_id # chosen[j].out_id
        /\ \A i \in Emitted : chosen[i].fresh /\ chosen[i].out_id \in used_ids
        /\ script = "english" =>
              /\ Len(items) = Cardinality(Emitted)
              /\ \A k \in 1..Len(items) : \E i \in Emitted :
                    /\ items[k].id = chosen[i].out_id
                    /\ Cardinality({j \in Emitted : j <= i}) = k

\* C1 witness: two rows whose artist/title text collides exactly were both
\* emitted by the English build
C1_Witness ==
    /\ script = "english"
    /\ \E i, j \in Emitted :
          /\ i < j
          /\ chosen[i].row.title = chosen[j].row.title
          /\ chosen[i].row.artists = chosen[j].row.artists
          /\ chosen[i].out_id # chosen[j].out_id

\* C2: in the catalog the Tamil build publishes, after the override pass,
\* no two records have the same id.
C2_PublishedIdsUnique ==
    script = "tamil" =>
        \A i, j \in 1..Len(items) : i < j => items[i].id # items[j].id

\* C3: collision resolution always reaches an unused id: whenever the builds'
\* while loop is entered or re-entered, the current candidate is unused or
\* some later counter gives an unused candidate.
C3_CollisionResolves ==
    (script \in {"english", "tamil"} /\ pc = "while") =>
        \/ unique_id \notin used_ids
        \/ \E c \in counter..ProbeLimit : CounterCandidate(base_id, c) \notin used_ids

-----------------------------------------------------------------------------
(* filter_new_english_songs and merge_english_jsons: song records          *)
(*                                                                         *)
(* A record is a Python dict: a function from field names to JSON values.  *)
(* A JSON value is null, a string or a list of strings (the kinds the two  *)
(* scripts tell apart with isinstance).                                    *)

JNull == [kind |-> "null"]
JStr(s) == [kind |-> "str", val |-> s]
JList(l) == [kind |-> "list", val |-> l]

\* item.get(field)
Get(item, field) == DictGet(item, field, JNull)

\* (item.get(field) or "").strip()
StrippedField(item, field) ==
    LET v == Get(item, field)
    IN  IF v.kind = "str" THEN Strip(v.val) ELSE <<>>

\* the characters of the model in code point order
CodeOrder == <<" ", ",", "-", ":">> \o Digit10 \o Upper26 \o <<"_">> \o Lower26

CodePoint(c) == CHOOSE i \in 1..Len(CodeOrder) : CodeOrder[i] = c

RECURSIVE StrLess(_, _)
\* a < b for Python strings
StrLess(a, b) ==
    IF b = <<>> THEN FALSE
    ELSE IF a = <<>> THEN TRUE
    ELSE IF a[1] = b[1] THEN StrLess(Tail(a), Tail(b))
    ELSE CodePoint(a[1]) < CodePoint(b[1])

\* sorted(l) for a list of strings
SortedStrs(l) ==
    LET rank(i) == Cardinality({j \in 1..Len(l) : StrLess(l[j], l[i])})
                   + Cardinality({j \in 1..(i - 1) : l[j] = l[i]}) + 1
    IN  [p \in 1..Len(l) |-> l[CHOOSE i \in 1..Len(l) : rank(i) = p]]

RECURSIVE Join(_, _)
\* sep.join(l)
Join(l, sep) ==
    IF l = <<>> THEN <<>>
    ELSE IF Len(l) = 1 THEN l[1]
    ELSE l[1] \o sep \o Join(Tail(l), sep)

\* _normalize_singers(value) of the filter and the merge
NormalizeSingersJson(value) ==
    LET parts == IF value.kind = "null" THEN <<>>
                 ELSE IF value.kind = "str" THEN <<value.val>>
                 ELSE value.val
    IN  SelectSeq(StripEach(parts), LAMBDA p : p # <<>>)

\* _title_singers_key(item, title_field="title", singers_field="singers")
TitleSingersKey(item) ==
    LET title == ToLower(StrippedField(item, "title"))
        singers == NormalizeSingersJson(Get(item, "singers"))
        lowered == [i \in 1..Len(singers) |-> ToLower(singers[i])]
    IN  title \o <<":",":">> \o Join(SortedStrs(lowered), <<",">>)

S_empty_key == <<":",":">>

\* the keys _build_base_keys adds for one item
BaseKeysOf(item, mode) ==
    LET song_id == StrippedField(item, "id")
        key == TitleSingersKey(item)
    IN  (IF mode \in {"id", "both"} /\ song_id # <<>>
         THEN {<<"i","d",":",":">> \o song_id} ELSE {})
        \cup
        (IF mode \in {"title_singers", "both"} /\ key # S_empty_key
         THEN {<<"t","i","t","l","e","_","s","i","n","g","e","r","s",":",":">> \o key} ELSE {})

\* _build_base_keys(items, mode, ...)
BuildBaseKeys(its, mode) == UNION {BaseKeysOf(its[i], mode) : i \in 1..Len(its)}

\* _is_duplicate without its title+singers test
IsDuplicateIdOnly(item, keys, mode) ==
    LET song_id == StrippedField(item, "id")
    IN  mode \in {"id", "both"} /\ song_id # <<>> /\ (<<"i","d",":",":">> \o song_id) \in keys

\* _is_duplicate(item, base_keys, mode, ...)
IsDuplicate(item, keys, mode) ==
    LET song_id == StrippedField(item, "id")
        key == TitleSingersKey(item)
    IN  \/ mode \in {"id", "both"} /\ song_id # <<>> /\ (<<"i","d",":",":">> \o song_id) \in keys
        \/ /\ mode \in {"title_singers", "both"} /\ key # S_empty_key
           /\ (<<"t","i","t","l","e","_","s","i","n","g","e","r","s",":",":">> \o key) \in keys

\* _merge_key with the empty key treated as a key
MergeKeyAlways(item) ==
    LET song_id == StrippedField(item, "id")
    IN  IF song_id # <<>> THEN <<"id", song_id>>
        ELSE <<"title_singers", TitleSingersKey(item)>>

\* _merge_key(item, ...): ("id", id), ("title_singers", key) or None
MergeKey(item) ==
    LET song_id == StrippedField(item, "id")
        key == TitleSingersKey(item)
    IN  IF song_id # <<>> THEN <<"id", song_id>>
        ELSE IF key # S_empty_key THEN <<"title_singers", key>>
        ELSE None

\* the counter of _safe_move: the first of 2, 3, ... whose name is free
DupName(name, n) == name \o <<"_","_","d","u","p">> \o DecStr(n)

RECURSIVE FreeCounter(_, _, _)
FreeCounter(name, dst, n) ==
    IF DupName(name, n) \notin DOMAIN dst THEN n ELSE FreeCounter(name, dst, n + 1)

\* _safe_move renaming to dst_dir / src.name whatever is there
SafeMoveNameOver(name, dst) == name

\* _safe_move(src, dst_dir): the name the folder gets in dst_dir
SafeMoveName(name, dst) ==
    IF name \notin DOMAIN dst THEN name ELSE DupName(name, FreeCounter(name, dst, 2))

-----------------------------------------------------------------------------
(* Inputs of the filter and the merge *)

MaxFilterBase == 1
MaxFilterIncoming == 3
MaxMergeBase == 2
MaxMergeIncoming == 1

\* a record with the fields that are not None here (v tells two records
\* with equal keys apart)
Song(id, title, singers, v) ==
    LET f1 == IF id = None THEN EmptyDict ELSE DictSet(EmptyDict, "id", JStr(id))
        f2 == IF title = None THEN f1 ELSE DictSet(f1, "title", JStr(title))
        f3 == IF singers = JNull THEN f2 ELSE DictSet(f2, "singers", singers)
    IN  DictSet(f3, "v", v)

S_x1 == <<"x","1">>
S_x2 == <<"x","2">>
S_x3 == <<"x","3">>

FilterBaseMenu ==
    { Song(S_x1, <<"S","o","n","g">>, JList(<<<<"A">>>>), 1),
      Song(None, <<>>, JNull, 1),
      Song(<<"x","3"," ">>, None, JStr(<<"C">>), 1) }

FilterIncomingMenu ==
    { Song(S_x1, <<"T","u","n","e">>, JList(<<<<"Z">>>>), 2),
      Song(S_x2, <<"s","o","n","g"," ">>, JList(<<<<"a">>>>), 2),
      Song(S_x3, <<"O","t","h","e","r">>, JList(<<<<"B">>>>), 2),
      Song(None, <<>>, JNull, 2) }

\* an entry of a directory: a folder or a file, and where it was when the
\* first run started ("clips": under --clips-root, "kept": in the
\* duplicates folder, "both": a kept folder that got a file from clips)
Entry(kind, from) == [kind |-> kind, from |-> from]

\* --dry-run, the clips root and the duplicates folder
FilterWorlds ==
    LET root == DictSet(DictSet(EmptyDict, S_x1, Entry("dir", "clips")),
                        S_x2, Entry("file", "clips"))
        full == DictSet(DictSet(DictSet(EmptyDict, S_x1, Entry("dir", "kept")),
                                DupName(S_x1, 2), Entry("dir", "kept")),
                        S_x2, Entry("file", "kept"))
    IN  { <<TRUE, root, EmptyDict>>, <<FALSE, root, EmptyDict>>, <<FALSE, root, full>> }

MergeMenu ==
    { Song(<<"a">>, <<"T">>, JNull, 1),
      Song(<<" ","a">>, <<"U">>, JNull, 2),
      Song(None, <<"T">>, JList(<<<<"B">>, <<"a">>>>), 1),
      Song(None, <<" ","t">>, JList(<<<<"A">>, <<"b"," ">>>>), 2),
      Song(None, <<>>, JStr(<<"A">>), 1),
      Song(None, None, JList(<<<<" ">>>>), 1) }

-----------------------------------------------------------------------------
(* filter_new_english_songs.main *)

\* lines 141-151: the key set of the base pool
FilterBuildKeys ==
    /\ tool = "filter" /\ rpc = "base"
    /\ base_keys' = BuildBaseKeys(base_items, duplicate_mode)
    /\ rpc' = IF incoming_items = <<>> THEN "write" ELSE "incoming"
    /\ UNCHANGED <<tool, ridx, base_items, incoming_items, duplicate_mode, dry_run,
                   non_duplicates, duplicates, clips_root, duplicates_dir,
                   prefer_second, merged, index, added, replaced, out_json>>
    /\ UNCHANGED <<buildVars, cacheVars, callVars, filter_runs>>

\* lines 155-166: one incoming item
FilterItem ==
    /\ tool = "filter" /\ rpc = "incoming" /\ ridx < Len(incoming_items)
    /\ LET item == incoming_items[ridx + 1]
       IN  IF IsDuplicate(item, base_keys, duplicate_mode)
           THEN /\ duplicates' = Append1(duplicates, item)
                /\ UNCHANGED non_duplicates
           ELSE /\ non_duplicates' = Append1(non_duplicates, item)
                /\ UNCHANGED duplicates
    /\ ridx' = ridx + 1
    /\ rpc' = IF ridx + 1 = Len(incoming_items) THEN "write" ELSE "incoming"
    /\ UNCHANGED <<tool, base_items, incoming_items, duplicate_mode, dry_run,
                   base_keys, clips_root, duplicates_dir,
                   prefer_second, merged, index, added, replaced, out_json>>
    /\ UNCHANGED <<buildVars, cacheVars, callVars, filter_runs>>

\* lines 168-178: the report and, unless --dry-run, the output file
FilterWrite ==
    /\ tool = "filter" /\ rpc = "write"
    /\ IF dry_run
       THEN /\ rpc' = "done"
            /\ UNCHANGED out_json
       ELSE /\ out_json' = <<non_duplicates>>
            /\ rpc' = IF duplicates = <<>> THEN "done" ELSE "move"
    /\ ridx' = 0
    /\ UNCHANGED <<tool, base_items, incoming_items, duplicate_mode, dry_run,
                   base_keys, non_duplicates, duplicates, clips_root, duplicates_dir,
                   prefer_second, merged, index, added, replaced>>
    /\ UNCHANGED <<buildVars, cacheVars, callVars, filter_runs>>

\* dict d without the key k
DictDel(d, k) == [x \in (DOMAIN d) \ {k} |-> d[x]]

\* lines 185-203: the clip folder of one duplicate
FilterMoveClip ==
    /\ tool = "filter" /\ rpc = "move" /\ ridx < Len(duplicates)
    /\ LET song_id == StrippedField(duplicates[ridx + 1], "id")
       IN  IF song_id = <<>> \/ song_id \notin DOMAIN clips_root
           THEN UNCHANGED <<clips_root, duplicates_dir>>
           ELSE /\ clips_root' = DictDel(clips_root, song_id)
                /\ IF clips_root[song_id].kind = "dir"
                   THEN duplicates_dir' =
                            DictSet(duplicates_dir, SafeMoveName(song_id, duplicates_dir),
                                    clips_root[song_id])
                   ELSE IF song_id \in DOMAIN duplicates_dir
                           /\ duplicates_dir[song_id].kind = "dir"
                   THEN duplicates_dir' =
                            DictSet(duplicates_dir, song_id, Entry("dir", "both"))
                   ELSE duplicates_dir' = DictSet(duplicates_dir, song_id, clips_root[song_id])
    /\ ridx' = ridx + 1
    /\ rpc' = IF ridx + 1 = Len(duplicates) THEN "done" ELSE "move"
    /\ UNCHANGED <<tool, base_items, incoming_items, duplicate_mode, dry_run,
                   base_keys, non_duplicates, duplicates,
                   prefer_second, merged, index, added, replaced, out_json>>
    /\ UNCHANGED <<buildVars, cacheVars, callVars, filter_runs>>

MaxFilterRuns == 2

\* the clips of the duplicates as cut_audio_clips makes them
ClipsCut == DictSet(EmptyDict, S_x1, Entry("dir", "clips"))

\* the same command started again after a run has ended; the clip folders
\* are as the run left them, or have been cut again in between
FilterRerun ==
    /\ tool = "filter" /\ rpc = "done" /\ filter_runs < MaxFilterRuns
    /\ filter_runs' = filter_runs + 1
    /\ rpc' = "base" /\ ridx' = 0
    /\ base_keys' = {} /\ non_duplicates' = <<>> /\ duplicates' = <<>>
    /\ clips_root' \in {clips_root, ClipsCut}
    /\ UNCHANGED <<tool, base_items, incoming_items, duplicate_mode, dry_run,
                   duplicates_dir, prefer_second, merged, index, added, replaced,
                   out_json>>
    /\ UNCHANGED <<buildVars, cacheVars, callVars>>

NextFilter ==
    \/ FilterBuildKeys
    \/ FilterItem
    \/ FilterWrite
    \/ FilterMoveClip

InitFilter ==
    /\ BuildIdle /\ CacheIdle /\ CallIdle
    /\ tool = "filter" /\ rpc = "base" /\ ridx = 0
    /\ base_items \in SeqsUpTo(FilterBaseMenu, MaxFilterBase)
    /\ incoming_items \in SeqsUpTo(FilterIncomingMenu, MaxFilterIncoming)
    /\ duplicate_mode \in {"id", "title_singers", "both"}
    /\ \E w \in FilterWorlds :
            dry_run = w[1] /\ clips_root = w[2] /\ duplicates_dir = w[3]
    /\ base_keys = {} /\ non_duplicates = <<>> /\ duplicates = <<>>
    /\ prefer_second = FALSE /\ merged = <<>> /\ index = EmptyDict
    /\ added = 0 /\ replaced = 0 /\ out_json = <<>> /\ filter_runs = 1

SpecFilter == InitFilter /\ [][NextFilter]_vars

-----------------------------------------------------------------------------
(* merge_english_jsons._merge and the write of main *)

\* the position stored for a key: "merged[index[key]] = item"
ReplaceAt(seq, pos, item) == [seq EXCEPT ![pos + 1] = item]

\* --prefer-second ignored in the base loop
ReplacesNever(flag) == FALSE

\* "if prefer_second:" of both loops
Replaces(flag) == flag

\* lines 82-95: one item of base
MergeBaseItem ==
    /\ tool = "merge" /\ rpc = "base" /\ ridx < Len(base_items)
    /\ LET item == base_items[ridx + 1]
           key == MergeKey(item)
       IN  IF key = None \/ key \notin DOMAIN index
           THEN /\ index' = DictSet(index, key, IF key # None THEN Len(merged) ELSE -1)
                /\ merged' = Append1(merged, item)
                /\ UNCHANGED replaced
           ELSE IF Replaces(prefer_second)
           THEN /\ merged' = ReplaceAt(merged, index[key], item)
                /\ replaced' = replaced + 1
                /\ UNCHANGED index
           ELSE UNCHANGED <<merged, index, replaced>>
    /\ ridx' = IF ridx + 1 = Len(base_items) THEN 0 ELSE ridx + 1
    /\ rpc' = IF ridx + 1 < Len(base_items) THEN "base"
              ELSE IF incoming_items = <<>> THEN "write" ELSE "incoming"
    /\ UNCHANGED <<tool, base_items, incoming_items, duplicate_mode, dry_run,
                   base_keys, non_duplicates, duplicates, clips_root, duplicates_dir,
                   prefer_second, added, out_json>>
    /\ UNCHANGED <<buildVars, cacheVars, callVars, filter_runs>>

\* lines 97-115: one item of incoming
MergeIncomingItem ==
    /\ tool = "merge" /\ rpc = "incoming" /\ ridx < Len(incoming_items)
    /\ LET item == incoming_items[ridx + 1]
           key == MergeKey(item)
       IN  IF key = None
           THEN /\ merged' = Append1(merged, item)
                /\ added' = added + 1
                /\ UNCHANGED <<index, replaced>>
           ELSE IF key \in DOMAIN index
           THEN IF Replaces(prefer_second)
                THEN /\ merged' = ReplaceAt(merged, index[key], item)
                     /\ replaced' = replaced + 1
                     /\ UNCHANGED <<index, added>>
                ELSE UNCHANGED <<merged, index, added, replaced>>
           ELSE /\ index' = DictSet(index, key, Len(merged))
                /\ merged' = Append1(merged, item)
                /\ added' = added + 1
                /\ UNCHANGED replaced
    /\ ridx' = ridx + 1
    /\ rpc' = IF ridx + 1 = Len(incoming_items) THEN "write" ELSE "incoming"
    /\ UNCHANGED <<tool, base_items, incoming_items, duplicate_mode, dry_run,
                   base_keys, non_duplicates, duplicates, clips_root, duplicates_dir,
                   prefer_second, out_json>>
    /\ UNCHANGED <<buildVars, cacheVars, callVars, filter_runs>>

\* line 117 and main 201-204: the merged list is returned and written
MergeWrite ==
    /\ tool = "merge" /\ rpc = "write"
    /\ out_json' = <<merged>>
    /\ rpc' = "done"
    /\ UNCHANGED <<tool, ridx, base_items, incoming_items, duplicate_mode, dry_run,
                   base_keys, non_duplicates, duplicates, clips_root, duplicates_dir,
                   prefer_second, merged, index, added, replaced>>
    /\ UNCHANGED <<buildVars, cacheVars, callVars, filter_runs>>

NextMerge ==
    \/ MergeBaseItem
    \/ MergeIncomingItem
    \/ MergeWrite

InitMerge ==
    /\ BuildIdle /\ CacheIdle /\ CallIdle
    /\ tool = "merge" /\ ridx = 0
    /\ base_items \in SeqsUpTo(MergeMenu, MaxMergeBase)
    /\ incoming_items \in SeqsUpTo(MergeMenu, MaxMergeIncoming)
    /\ rpc = IF base_items # <<>> THEN "base"
             ELSE IF incoming_items # <<>> THEN "incoming" ELSE "write"
    /\ prefer_second \in BOOLEAN
    /\ merged = <<>> /\ index = EmptyDict /\ added = 0 /\ replaced = 0
    /\ out_json = <<>>
    /\ duplicate_mode = "id" /\ dry_run = FALSE /\ base_keys = {}
    /\ non_duplicates = <<>> /\ duplicates = <<>>
    /\ clips_root = EmptyDict /\ duplicates_dir = EmptyDict /\ filter_runs = 0

SpecMerge == InitMerge /\ [][NextMerge]_vars

-----------------------------------------------------------------------------
(* The filter and the merge: properties *)

\* the incoming items classified so far
Classified ==
    IF rpc = "incoming" THEN SubSeq(incoming_items, 1, ridx)
    ELSE IF rpc = "base" THEN <<>> ELSE incoming_items

\* an id of the base pool equals the item's stripped id
IdMatch(item) ==
    /\ duplicate_mode \in {"id", "both"}
    /\ StrippedField(item, "id") # <<>>
    /\ \E b \in 1..Len(base_items) :
            StrippedField(base_items[b], "id") = StrippedField(item, "id")

\* a title+singers key of the base pool equals the item's, the empty key aside
TitleSingersMatch(item) ==
    /\ duplicate_mode \in {"title_singers", "both"}
    /\ TitleSingersKey(item) # S_empty_key
    /\ \E b \in 1..Len(base_items) :
            TitleSingersKey(base_items[b]) = TitleSingersKey(item)

\* C7: the filter splits the incoming items into duplicates and
\* non-duplicates, each item in exactly one list and in input order; an item
\* is a duplicate exactly when its stripped, non-empty id is a base id (modes
\* id and both) or its title+singers key, other than the empty key, is a
\* base key (modes title_singers and both)
C7_ClassificationPartition == tool = "filter" =>
    /\ duplicates = SelectSeq(Classified, LAMBDA it : IdMatch(it) \/ TitleSingersMatch(it))
    /\ non_duplicates =
            SelectSeq(Classified, LAMBDA it : ~(IdMatch(it) \/ TitleSingersMatch(it)))
    /\ Len(duplicates) + Len(non_duplicates) = Len(Classified)
    /\ out_json # <<>> => out_json = <<non_duplicates>>

\* the example of C7: base x1/Song/[A]; incoming x1, x2 (song, [a]) and x3
\* (Other, [B]) under mode both: x1 and x2 are duplicates, x3 is new
C7_Witness ==
    /\ tool = "filter" /\ rpc = "done" /\ duplicate_mode = "both"
    /\ Len(base_items) = 1 /\ StrippedField(base_items[1], "id") = S_x1
    /\ TitleSingersKey(base_items[1]) = <<"s","o","n","g",":",":","a">>
    /\ Len(incoming_items) = 3
    /\ [i \in 1..3 |-> StrippedField(incoming_items[i], "id")] = <<S_x1, S_x2, S_x3>>
    /\ [i \in 1..Len(duplicates) |-> StrippedField(duplicates[i], "id")] = <<S_x1, S_x2>>
    /\ [i \in 1..Len(non_duplicates) |-> StrippedField(non_duplicates[i], "id")] = <<S_x3>>
    /\ out_json = <<non_duplicates>>

\* base followed by incoming, up to the item the loops have reached
Walked ==
    IF rpc = "base" THEN SubSeq(base_items, 1, ridx)
    ELSE IF rpc = "incoming" THEN base_items \o SubSeq(incoming_items, 1, ridx)
    ELSE base_items \o incoming_items

FirstWith(seq, key) == MinOf({i \in 1..Len(seq) : MergeKey(seq[i]) = key})
LastWith(seq, key) == MaxOf({i \in 1..Len(seq) : MergeKey(seq[i]) = key})

\* the merge policy applied to seq: a record without a key stays; a key
\* keeps the place of its first record and shows its first or its last
PolicyResult(seq, second) ==
    LET kept == SelectSeq([i \in 1..Len(seq) |-> i],
                    LAMBDA i : MergeKey(seq[i]) = None \/ FirstWith(seq, MergeKey(seq[i])) = i)
    IN  [p \in 1..Len(kept) |->
            IF MergeKey(seq[kept[p]]) = None THEN seq[kept[p]]
            ELSE IF second THEN seq[LastWith(seq, MergeKey(seq[kept[p]]))]
            ELSE seq[kept[p]]]

\* what C8 says of every state of the merge
MergePolicyHolds == tool = "merge" =>
    /\ merged = PolicyResult(Walked, prefer_second)
    /\ \A i, j \in 1..Len(merged) :
            (i # j /\ MergeKey(merged[i]) # None) => MergeKey(merged[i]) # MergeKey(merged[j])
    /\ out_json # <<>> => out_json = <<merged>>

\* C8: _merge returns one record per key that can be computed, at the place
\* where the key was first seen: the first record seen with prefer_second
\* false, the last record seen with prefer_second true; records without a
\* key keep their order and are all there; the written file is the merged
\* list; no step changes the two input lists
C8_MergePolicy ==
    /\ []MergePolicyHolds
    /\ [][base_items' = base_items /\ incoming_items' = incoming_items]_vars

\* a key seen in base and again in incoming, the incoming record shown
\* exactly when prefer_second is set
C8_Witness ==
    /\ tool = "merge" /\ rpc = "done"
    /\ \E i \in 1..Len(base_items), j \in 1..Len(incoming_items) :
        /\ MergeKey(base_items[i]) # None
        /\ MergeKey(base_items[i]) = MergeKey(incoming_items[j])
        /\ base_items[i] # incoming_items[j]
        /\ (prefer_second => incoming_items[j] \in {merged[k] : k \in 1..Len(merged)})
        /\ (~prefer_second => incoming_items[j] \notin {merged[k] : k \in 1..Len(merged)})
    /\ Len(merged) < Len(base_items) + Len(incoming_items)

NoIdEmptyTitle(item) ==
    StrippedField(item, "id") = <<>> /\ StrippedField(item, "title") = <<>>

NoIdEmptyTitleNoSingers(item) ==
    NoIdEmptyTitle(item) /\ NormalizeSingersJson(Get(item, "singers")) = <<>>

\* C9 as stated: every walked record without id and with an empty title,
\* whatever its singers, is in merged, in order
C9_NoIdEmptyTitleAppended == tool = "merge" =>
    SelectSeq(merged, NoIdEmptyTitle) = SelectSeq(Walked, NoIdEmptyTitle)

\* C9: every walked record without id, with an empty title and with no
\* singer left after normalisation is in merged, in order: none is dropped,
\* none is replaced
C9_KeylessAppended == tool = "merge" =>
    SelectSeq(merged, NoIdEmptyTitleNoSingers) = SelectSeq(Walked, NoIdEmptyTitleNoSingers)

\* two keyless records, one from each list, both in the result
C9_Witness ==
    /\ tool = "merge" /\ rpc = "done"
    /\ \E i \in 1..Len(base_items), j \in 1..Len(incoming_items) :
        /\ NoIdEmptyTitleNoSingers(base_items[i])
        /\ NoIdEmptyTitleNoSingers(incoming_items[j])
    /\ Len(SelectSeq(merged, NoIdEmptyTitleNoSingers)) >= 2

-----------------------------------------------------------------------------
(* Asset resolution in the English build *)

\* rows that collide, with and without a track id
AssetRowMenu ==
    { CsvRow(S_x, <<>>, S_A, S_uri),
      CsvRow(S_x, <<>>, S_A, <<>>),
      CsvRow(S_x_2, <<>>, S_A, <<>>) }

\* the English build over audio directories that hold any of: the slug's
\* mp3, the track id's mp3, the legacy name's mp3; each with or without
\* its one-second clip
InitAssets ==
    /\ LoopStart
    /\ script = "english"
    /\ rows \in SeqsUpTo(AssetRowMenu, MaxRows)
    /\ mp3s \in SUBSET Mp3Pool
    /\ clips \in SUBSET {<<n, 1>> : n \in mp3s}
    /\ durations \in {<<1>>, <<1, 2>>}
    /\ require_all \in BOOLEAN
    /\ only_preview \in {None, S_tid}
    /\ overrides = EmptyDict

SpecAssets == InitAssets /\ [][NextEnglish]_vars

\* the first non-empty name of seq with an mp3 on disk, None without one
FirstOnDisk(seq) ==
    IF \E k \in 1..Len(seq) : seq[k] # <<>> /\ seq[k] \in mp3s
    THEN seq[MinOf({k \in 1..Len(seq) : seq[k] # <<>> /\ seq[k] \in mp3s})]
    ELSE None

TrackIdOf(r) == ParseTrackId(r.uri)
LegacyOf(r) == SafeFilename(r.artists \o <<" ","-"," ">> \o r.title)

\* C10 as stated: every row's preview is the first name on disk among its
\* assigned id, its track id and its legacy sanitized name
C10_TriesIdTrackLegacy == script = "english" =>
    \A i \in 1..Len(chosen) :
        chosen[i].preview =
            FirstOnDisk(<<chosen[i].id>>
                        \o (IF TrackIdOf(chosen[i].row) # None
                            THEN <<TrackIdOf(chosen[i].row)>> ELSE <<>>)
                        \o <<LegacyOf(chosen[i].row)>>)

\* C10: the preview of a row is the first non-empty candidate whose mp3 is
\* on disk and None when there is none; the candidates are the assigned id,
\* then the track id when the uri has one, then the legacy sanitized name
\* only when the assigned id is the base slug; a row without a preview is
\* not emitted
C10_FirstExistingCandidate == script = "english" =>
    \A i \in 1..Len(chosen) :
        /\ chosen[i].candidates =
              <<chosen[i].id>>
              \o (IF TrackIdOf(chosen[i].row) # None
                  THEN <<TrackIdOf(chosen[i].row)>> ELSE <<>>)
              \o (IF chosen[i].id = chosen[i].base_id
                  THEN <<LegacyOf(chosen[i].row)>> ELSE <<>>)
        /\ chosen[i].preview = FirstOnDisk(chosen[i].candidates)
        /\ chosen[i].preview = None => ~chosen[i].emitted

\* the example: of three candidates the second and the third are on disk
\* and the second is taken; and a row without a match that is skipped
C10_Witness ==
    /\ script = "english"
    /\ \E i \in 1..Len(chosen) :
        /\ Len(chosen[i].candidates) = 3
        /\ chosen[i].candidates[1] \notin mp3s
        /\ chosen[i].candidates[2] \in mp3s
        /\ chosen[i].candidates[3] \in mp3s
        /\ chosen[i].preview = chosen[i].candidates[2]
        /\ chosen[i].emitted
    /\ \E j \in 1..Len(chosen) : chosen[j].preview = None /\ ~chosen[j].emitted

-----------------------------------------------------------------------------
(* The two cleaners: text *)

WordSet == LowerSet \cup UpperSet \cup DigitSet \cup {"_"}

\* lit is at place i of t
LitAt(t, i, lit) == i >= 1 /\ i + Len(lit) - 1 <= Len(t) /\ SubSeq(t, i, i + Len(lit) - 1) = lit

\* "from\b" (re.IGNORECASE) matches at place k of t
FromAt(t, k) ==
    /\ LitAt(ToLower(t), k, <<"f","r","o","m">>)
    /\ (k + 4 > Len(t) \/ t[k + 4] \notin WordSet)

\* "(?:feat\.?|ft\.?|featuring)\s" (re.IGNORECASE) matches at place k of t
FeatAt(t, k) ==
    \E kw \in {<<"f","e","a","t">>, <<"f","e","a","t",".">>, <<"f","t">>, <<"f","t",".">>, <<"f","e","a","t","u","r","i","n","g">>} :
        /\ LitAt(ToLower(t), k, kw)
        /\ k + Len(kw) <= Len(t) /\ t[k + Len(kw)] = " "

\* the first place after j that holds no space
SkipWs(t, j) == WsEnd(t, j + 1) + 1

\* the closing brackets of t from place k on
Closers(t, k) == {c \in k..Len(t) : t[c] \in {")", "]"}}

\* the word of a pattern at place k: "from" or one of the "feat" words
WordAt(word, t, k) == IF word = "from" THEN FromAt(t, k) ELSE FeatAt(t, k)

\* the opening brackets where "[\(\[]\s*<word>[^)\]]*[\)\]]" matches; word
\* is "from" or "feat", wlen the shortest text the word takes
BracketStarts(t, word, wlen) ==
    {j \in 1..Len(t) : /\ t[j] \in {"(", "["}
                       /\ WordAt(word, t, SkipWs(t, j))
                       /\ Closers(t, SkipWs(t, j) + wlen) # {}}

RECURSIVE SubBracketed(_, _, _)
\* pat.sub("", t) for "\s*[\(\[]\s*<word>[^)\]]*[\)\]]": every match goes
SubBracketed(t, word, wlen) ==
    LET starts == BracketStarts(t, word, wlen)
    IN  IF starts = {} THEN t
        ELSE LET j == MinOf(starts)
                 c == MinOf(Closers(t, SkipWs(t, j) + wlen))
             IN  SubSeq(t, 1, WsStart(t, j - 1) - 1)
                    \o SubBracketed(SubSeq(t, c + 1, Len(t)), word, wlen)

\* the dashes where "-\s*<word>" matches
DashStarts(t, word) ==
    {j \in 1..Len(t) : t[j] = "-" /\ WordAt(word, t, SkipWs(t, j))}

\* pat.sub("", t) for "\s*-\s*<word>.*$"
SubDashed(t, word) ==
    LET starts == DashStarts(t, word)
    IN  IF starts = {} THEN t
        ELSE SubSeq(t, 1, WsStart(t, MinOf(starts) - 1) - 1)

\* the places k where "\s+from\b\s+\"?.+\"?$" finds its "from"
SpacedFromStarts(t) ==
    {k \in 2..Len(t) : /\ t[k - 1] = " " /\ FromAt(t, k)
                       /\ k + 5 <= Len(t) /\ t[k + 4] = " "}

\* the places k where "\s+(?:feat\.?|ft\.?|featuring)\s+.*$" finds its word
SpacedFeatStarts(t) == {k \in 2..Len(t) : t[k - 1] = " " /\ FeatAt(t, k)}

\* pat.sub("", t) for a pattern "\s+<word>...$" whose word is at starts
SubSpaced(t, starts) ==
    IF starts = {} THEN t
    ELSE SubSeq(t, 1, WsStart(t, MinOf(starts) - 1) - 1)

\* any(pat.search(title) for pat in FROM_TITLE_PATTERNS)
HasFromPattern(t) ==
    \/ BracketStarts(t, "from", 4) # {}
    \/ DashStarts(t, "from") # {}
    \/ SpacedFromStarts(t) # {}

\* _normalize_title(title, language=language) of both cleaners
NormalizeTitle(title, language) ==
    LET t0 == IF title = None THEN <<>> ELSE Strip(title)
        t1 == SubBracketed(t0, "from", 4)
        t2 == SubDashed(t1, "from")
        t3 == SubSpaced(t2, SpacedFromStarts(t2))
        e1 == SubBracketed(t3, "feat", 3)
        e2 == SubDashed(e1, "feat")
        e3 == SubSpaced(e2, SpacedFeatStarts(e2))
        t4 == IF language = "english" THEN e3 ELSE t3
    IN  IF t0 = <<>> THEN t0
        ELSE StripChars(Strip(CollapseSpaces(t4)), {" ", "-"})

\* _normalize_singers / _normalize_artists of the cleaners, for a JSON
\* value: a string and every list entry are split on runs of ";" and ","
NormalizeSingers(value) ==
    LET RECURSIVE Flat(_)
        Flat(l) == IF l = <<>> THEN <<>>
                   ELSE SplitOn(l[1], {";", ","}) \o Flat(Tail(l))
        parts == IF value.kind = "null" THEN <<>>
                 ELSE IF value.kind = "str" THEN SplitOn(value.val, {";", ","})
                 ELSE Flat(value.val)
    IN  SelectSeq(StripEach(parts), LAMBDA p : p # <<>>)

\* _normalize_album(value)
NormalizeAlbum(value) ==
    IF value.kind # "str" THEN JNull
    ELSE IF Strip(value.val) = <<>> THEN JNull
    ELSE IF ToLower(Strip(value.val)) \in
              {<<"s","i","n","g","l","e">>, <<"s","t","a","n","d","a","l","o","n","e"," ","s","i","n","g","l","e">>, <<"s","i","n","g","l","e"," ","r","e","l","e","a","s","e">>, <<"n","/","a">>, <<"n","o","n","e">>}
    THEN JNull
    ELSE JStr(Strip(value.val))

\* _determine_language(path)
DetermineLanguage(name) ==
    IF Contains(ToLower(name), <<"t","a","m","i","l">>) THEN "tamil"
    ELSE IF Contains(ToLower(name), <<"e","n","g","l","i","s","h">>) THEN "english"
    ELSE "unknown"

-----------------------------------------------------------------------------
(* The two cleaners: cache, reference lookups, payloads *)

\* _load_cache that never finds the file
LoadCacheEmpty(file) == EmptyDict

\* _load_cache(path): {} without a file
LoadCache(file) == IF file = <<>> THEN EmptyDict ELSE file[1]

\* the cache file: "missing", "object", or what else it holds: "text" (no
\* JSON), "array" (JSON, no object), "binary" (no UTF-8)
FileKind(file) ==
    IF file = <<>> THEN "missing" ELSE IF Len(file) = 1 THEN "object" ELSE file[2]

Unusable(kind) == <<EmptyDict, kind>>

\* _load_cache returns what json.loads returns: a list for an array
LoadedType(file) == IF FileKind(file) = "array" THEN "list" ELSE "dict"

\* truth of a JSON value: "if movie:", "if not title"
Truthy(v) == (v.kind = "str" /\ v.val # <<>>) \/ (v.kind = "list" /\ v.val # <<>>)

\* key = f"{input_path.name}:{item.get('id', idx)}"
CacheKey(name, item, i) ==
    name \o <<":">> \o (IF "id" \notin DOMAIN item THEN DecStr(i)
                        ELSE IF item["id"].kind = "str" THEN item["id"].val
                        ELSE <<"N","o","n","e">>)

\* the payload fields in the order json.dumps(sort_keys=True) writes them
PayloadKeyOrder ==
    <<"album", "artists", "current_album", "hero", "heroine", "key", "language",
      "movie", "music_director", "query_hint", "singers", "title", "track_uri",
      "wikipedia">>

\* _input_hash(payload): the digest of the canonical serialisation, here the
\* serialisation itself (the fields in sorted order, each with its value)
InputHash(payload) ==
    LET present == SelectSeq(PayloadKeyOrder, LAMBDA k : k \in DOMAIN payload)
    IN  [i \in 1..Len(present) |-> <<present[i], payload[present[i]]>>]

\* the cache test with the payload hash left out
CacheHitKeyOnly(c, key, payload_hash) == key \in DOMAIN c

\* cached = cache.get(key); cached and cached.get("input_hash") == payload_hash
CacheHit(c, key, payload_hash) ==
    key \in DOMAIN c /\ c[key].input_hash = payload_hash

\* _build_llm_payload(item, language)
BuildLlmPayload(item, language) ==
    LET p0 == [language |-> JStr(language), title |-> Get(item, "title"),
               album |-> Get(item, "album"), movie |-> Get(item, "movie"),
               music_director |-> Get(item, "music_director"),
               singers |-> Get(item, "singers"), hero |-> Get(item, "hero"),
               heroine |-> Get(item, "heroine"), key |-> Get(item, "key")]
        p1 == IF "track_uri" \in DOMAIN item
              THEN DictSet(p0, "track_uri", item["track_uri"]) ELSE p0
    IN  IF language = "tamil" /\ Truthy(Get(item, "movie"))
        THEN DictSet(p1, "query_hint",
                     JStr(Get(item, "movie").val
                          \o <<" ","t","a","m","i","l"," ","m","o","v","i","e"," ","h","e","r","o"," ","h","e","r","o","i","n","e"," ","m","u","s","i","c"," ","d","i","r","e","c","t","o","r">>))
        ELSE p1

\* _build_payload(item, language=language) of the album cleaner
BuildPayload(item, language) ==
    [language |-> JStr(language), title |-> Get(item, "title"),
     artists |-> IF Truthy(Get(item, "singers")) THEN Get(item, "singers")
                 ELSE Get(item, "artists"),
     current_album |-> Get(item, "album")]

\* _needs_llm(item)
NeedsLlm(item) ==
    \/ \E f \in DOMAIN item : item[f] = JNull
    \/ Get(item, "title").kind = "str" /\ HasFromPattern(Get(item, "title").val)
    \/ Get(item, "singers").kind = "str"
    \/ /\ Get(item, "singers").kind = "list"
       /\ \E i \in 1..Len(Get(item, "singers").val) :
             \E j \in 1..Len(Get(item, "singers").val[i]) :
                Get(item, "singers").val[i][j] \in {";", ","}

\* cleaned = dict(item) with title and singers normalised (both cleaners)
Cleaned(item, language) ==
    LET title == IF Get(item, "title").kind = "str" THEN Get(item, "title").val ELSE <<>>
    IN  DictSet(DictSet(item, "title", JStr(NormalizeTitle(title, language))),
                "singers", JList(NormalizeSingers(Get(item, "singers"))))

\* _apply_result(item, result, language=language)
ApplyResult(item, result, language) ==
    Cleaned([f \in DOMAIN item |-> IF f \in DOMAIN result THEN result[f] ELSE item[f]],
            language)

\* the --fill-unknown pass over the cleaned item
FillUnknown(item, mode) ==
    IF mode = "null" THEN item
    ELSE [f \in DOMAIN item |->
            IF item[f] = JNull
            THEN (IF mode = "empty" THEN JStr(<<>>) ELSE JStr(<<"U","n","k","n","o","w","n">>))
            ELSE item[f]]

\* the key of a film in cache["_wiki"]: movie.lower().strip()
WikiKey(movie) == Strip(ToLower(movie))

\* the key of a song in cache["_wiki_album"]
WikiAlbumKey(title, artists) ==
    Strip(ToLower(title)) \o <<":",":">>
        \o Join([i \in 1..Len(artists) |-> ToLower(artists[i])], <<",">>)

S_wiki == <<"_","w","i","k","i">>
S_wiki_album == <<"_","w","i","k","i","_","a","l","b","u","m">>

\* what the reference site answers to the search and to the page requests:
\*   search "hit"     - the first query has a result with a title
\*          "empty"   - every query is answered, none has a result
\*          "lacking" - every answer is an error document without "query"
\*          "raises"  - the request fails (network error, invalid JSON)
\*   page   "ok", "lacking" (no "query" in the answers), "raises"
\* the answers drawn here: "empty" takes the path of "lacking" and a failing
\* page request the path of a failing search, see FetchThrough
WikiOutcomes ==
    { [search |-> "hit", page |-> "ok"], [search |-> "hit", page |-> "lacking"],
      [search |-> "lacking", page |-> "ok"], [search |-> "raises", page |-> "ok"] }

\* the result dict of _fetch_wikipedia_data for a page of the outcome
WikiResult(outcome) ==
    IF outcome.page = "ok"
    THEN [page_title |-> JStr(<<"M"," ","(","f","i","l","m",")">>), summary |-> JStr(<<"s">>),
          starring |-> JList(<<<<"H">>, <<"W">>>>), music_by |-> JStr(<<"D">>)]
    ELSE [page_title |-> JStr(<<"M"," ","(","f","i","l","m",")">>), summary |-> JNull,
          starring |-> JNull, music_by |-> JNull]

\* the result dict of _fetch_wikipedia_album for a page of the outcome
WikiAlbumResult(outcome) ==
    IF outcome.page = "ok"
    THEN [page_title |-> JStr(<<"a"," ","(","s","o","n","g",")">>), album |-> JStr(<<"L","P">>)]
    ELSE [page_title |-> JStr(<<"a"," ","(","s","o","n","g",")">>), album |-> JNull]

\* _fetch_wikipedia_data / _fetch_wikipedia_album after the key is built:
\* the namespace is created, a stored entry is returned, else the requests
\* go out; the answer: the dict cache after the call, the data returned,
\* whether a request went out, whether the call raised
FetchThrough(c, ns, key, outcome, result) ==
    LET c1 == IF ns \in DOMAIN c THEN c ELSE DictSet(c, ns, EmptyDict)
    IN  IF cache_type # "dict"
        THEN \* "cache.setdefault" raises AttributeError on a list
             [cache |-> c, data |-> JNull, out |-> FALSE, raised |-> TRUE]
        ELSE IF key \in DOMAIN c1[ns]
        THEN [cache |-> c1, data |-> c1[ns][key], out |-> FALSE, raised |-> FALSE]
        ELSE IF outcome.search = "raises"
                \/ (outcome.search = "hit" /\ outcome.page = "raises")
        THEN [cache |-> c1, data |-> JNull, out |-> TRUE, raised |-> TRUE]
        ELSE IF outcome.search \in {"empty", "lacking"}
        THEN [cache |-> DictSet(c1, ns, DictSet(c1[ns], key, JNull)),
              data |-> JNull, out |-> TRUE, raised |-> FALSE]
        ELSE [cache |-> DictSet(c1, ns, DictSet(c1[ns], key, result)),
              data |-> result, out |-> TRUE, raised |-> FALSE]

\* no lookup: the cache as it is, no data
NoFetch(c) == [cache |-> c, data |-> JNull, out |-> FALSE, raised |-> FALSE]

-----------------------------------------------------------------------------
(* Inputs of the cleaners *)

MaxRuns == 2

S_tamil_json == <<"t","a","m","i","l","_","s","o","n","g","s",".","j","s","o","n">>
S_english_json == <<"e","n","g","l","i","s","h","_","s","o","n","g","s",".","j","s","o","n">>

\* a Tamil record: every field set but the hero
TamilItem(id, title, movie) ==
    LET it == [title |-> JStr(title), album |-> JStr(<<"L">>), movie |-> JStr(movie),
               music_director |-> JStr(<<"D">>), singers |-> JList(<<<<"S">>>>),
               hero |-> JNull, heroine |-> JStr(<<"W">>), key |-> JStr(<<"C">>)]
    IN  IF id = None THEN it ELSE DictSet(it, "id", JStr(id))

\* an English record of the album cleaner
EnglishItem(id, title, singers, album) ==
    LET it == [title |-> JStr(title), singers |-> singers, album |-> album]
    IN  IF id = None THEN it ELSE DictSet(it, "id", JStr(id))

S_s1 == <<"s","1">>
S_s2 == <<"s","2">>

\* input files: the same record twice; two records with one id and
\* different fields; a record without id; two records with an id each;
\* three records
InputFiles(which) ==
    IF which = "metadata"
    THEN LET a == TamilItem(S_s1, <<"a">>, <<"M">>)
             b == TamilItem(S_s1, <<"b"," ","(","F","r","o","m"," ","M",")">>, <<" ","m">>)
             n == TamilItem(None, <<"a">>, <<>>)
             c == TamilItem(S_s2, <<"c">>, <<"M">>)
         IN  { <<a, a>>, <<a, b>>, <<n>>, <<a, c>>, <<b, c, b>> }
    ELSE LET a == EnglishItem(S_s1, <<"a"," ","(","f","e","a","t","."," ","X",")">>, JStr(<<"S",";","T">>), JStr(<<"S","i","n","g","l","e">>))
             b == EnglishItem(S_s1, <<"b">>, JList(<<<<"S">>>>), JNull)
             n == EnglishItem(None, <<>>, JNull, JStr(<<"L">>))
             c == EnglishItem(S_s2, <<"c">>, JList(<<<<"S">>>>), JNull)
         IN  { <<a, a>>, <<a, b>>, <<n>>, <<a, c>>, <<b, c, b>> }

\* command lines: llm is --force-llm (metadata) or --llm-fallback (album);
\* limit is <<>> when --limit is not given
ArgsMenu ==
    { [wiki |-> TRUE, llm |-> TRUE, start_at |-> 0, limit |-> <<>>, fill_unknown |-> "null"],
      [wiki |-> FALSE, llm |-> FALSE, start_at |-> 1, limit |-> <<>>, fill_unknown |-> "empty"],
      [wiki |-> TRUE, llm |-> FALSE, start_at |-> 0, limit |-> <<1>>, fill_unknown |-> "null"] }

\* what the model answers: a JSON object (of the payload's keys, or of other
\* keys as well: one no record has, and the id), or the call fails
LlmOutcomes(which) ==
    IF which = "metadata"
    THEN { [ok |-> TRUE, result |-> [hero |-> JStr(<<"H">>)]],
           [ok |-> TRUE, result |-> [hero |-> JNull, title |-> JStr(<<"c"," ","-"," ","f","r","o","m"," ","M">>),
                                     extra |-> JStr(<<"z">>), id |-> JStr(<<"z">>)]],
           [ok |-> FALSE, result |-> EmptyDict] }
    ELSE { [ok |-> TRUE, result |-> [album |-> JStr(<<"L","P">>)]],
           [ok |-> TRUE, result |-> [album |-> JStr(<<"s","i","n","g","l","e">>)]],
           [ok |-> FALSE, result |-> EmptyDict] }

-----------------------------------------------------------------------------
(* clean_metadata_with_llm.main and clean_metadata_album_with_llm.main *)

\* a process starts: the cache file is loaded, the input file (one of files)
\* is read
StartRunOn(files) ==
    /\ cleaner # "none" /\ cpc = "idle" /\ runs < MaxRuns
    /\ runs' = runs + 1
    /\ loaded' = Append1(loaded, FileKind(cache_file))
    /\ IF FileKind(cache_file) = "binary"
       THEN \* path.read_text raises UnicodeDecodeError, which is not caught
            UNCHANGED <<cache, cache_type, in_items, idx, processed, updated, cpc>>
       ELSE /\ cache' = LoadCache(cache_file)
            /\ cache_type' = LoadedType(cache_file)
            /\ in_items' \in files
            /\ idx' = 0 /\ processed' = 0 /\ updated' = <<>>
            /\ cpc' = "loop"
    /\ UNCHANGED <<cleaner, args, input_name, cache_file, out_file, saved_runs,
                   served, lookups>>
    /\ UNCHANGED <<buildVars, reconVars, callVars>>

StartRun == StartRunOn(InputFiles(cleaner))

\* json.dump of a catalog record of the build, read back by json.loads
JsonOfItem(item) ==
    [f \in DOMAIN item |->
        IF f = "singers" THEN JList(item[f])
        ELSE IF f = "audio" THEN [kind |-> "object", val |-> item[f]]
        ELSE IF item[f] = None THEN JNull
        ELSE JStr(item[f])]

\* the cleaner is started on the catalog that the build has written
StartEnrich ==
    /\ script = "tamil" /\ pc = "done" /\ cleaner = "metadata" /\ runs = 0
    /\ StartRunOn({[k \in 1..Len(written) |-> JsonOfItem(written[k])]})

\* "if idx < args.start_at: updated.append(item); continue"
SkipItem ==
    /\ cleaner # "none" /\ cpc = "loop" /\ idx < Len(in_items)
    /\ idx < args.start_at
    /\ updated' = Append1(updated, in_items[idx + 1])
    /\ idx' = idx + 1
    /\ UNCHANGED <<cleaner, cpc, args, input_name, in_items, processed, cache,
                   cache_file, out_file, runs, saved_runs, served, lookups,
                   cache_type, loaded>>
    /\ UNCHANGED <<buildVars, reconVars, callVars>>

\* items[idx:] cut short
RestNone(its, i) == <<>>

\* items[idx:]
Rest(its, i) == SubSeq(its, i + 1, Len(its))

\* "if args.limit is not None and processed >= args.limit:
\*      updated.extend(items[idx:]); break"
LimitReached ==
    /\ cleaner # "none" /\ cpc = "loop" /\ idx < Len(in_items)
    /\ idx >= args.start_at
    /\ args.limit # <<>> /\ processed >= args.limit[1]
    /\ updated' = updated \o Rest(in_items, idx)
    /\ idx' = Len(in_items)
    /\ UNCHANGED <<cleaner, cpc, args, input_name, in_items, processed, cache,
                   cache_file, out_file, runs, saved_runs, served, lookups,
                   cache_type, loaded>>
    /\ UNCHANGED <<buildVars, reconVars, callVars>>

\* the item the loop is at, and whether the loop body runs for it
AtItem ==
    /\ cpc = "loop" /\ idx < Len(in_items)
    /\ idx >= args.start_at
    /\ ~(args.limit # <<>> /\ processed >= args.limit[1])

\* the record of a lookup that went out
LookupRecord(ns, key, outcome, fetched) ==
    [run |-> runs, ns |-> ns, key |-> key, outcome |-> outcome,
     stored |-> key \in DOMAIN fetched.cache[ns]]

\* the cache check and the model call (both cleaners):
\* the cache after it, the result, whether the model was called
\* "cached = cache.get(key)" ... "cache[key] = {...}" for a payload hash
ThroughHash(c, key, payload_hash, llm) ==
    IF cache_type # "dict"
    THEN \* "cached = cache.get(key)" raises AttributeError on a list
         [cache |-> c, result |-> EmptyDict, called |-> FALSE, ok |-> FALSE]
    ELSE IF CacheHit(c, key, payload_hash)
    THEN [cache |-> c, result |-> c[key].result, called |-> FALSE, ok |-> TRUE]
    ELSE IF llm.ok
    THEN [cache |-> DictSet(c, key, [input_hash |-> payload_hash,
                                     result |-> llm.result]),
          result |-> llm.result, called |-> TRUE, ok |-> TRUE]
    ELSE [cache |-> c, result |-> EmptyDict, called |-> TRUE, ok |-> FALSE]

ThroughCache(c, key, payload, llm) == ThroughHash(c, key, InputHash(payload), llm)

ServedRecord(key, payload, through) ==
    [run |-> runs, key |-> key, hash |-> InputHash(payload),
     called |-> through.called, ok |-> through.ok, result |-> through.result]

\* the process dies on an exception that main does not catch
Abort ==
    /\ cpc' = "idle" /\ cache' = EmptyDict /\ updated' = <<>>
    /\ idx' = 0 /\ processed' = 0 /\ in_items' = <<>>

\* "if wiki_data: payload["wikipedia"] = wiki_data"
WithWikipedia(payload, wiki_data) ==
    IF wiki_data # JNull THEN DictSet(payload, "wikipedia", wiki_data) ELSE payload

\* the end of the loop body (both cleaners): the lookup and the model call
\* leave their traces, a failed model call ends the process, else the item
\* is appended
ItemDone(ns, wiki_key, wo, fetched, asks, key, payload, through, final) ==
    /\ lookups' = IF fetched.out
                  THEN Append1(lookups, LookupRecord(ns, wiki_key, wo, fetched))
                  ELSE lookups
    /\ served' = IF asks
                 THEN Append1(served, ServedRecord(key, payload, through))
                 ELSE served
    /\ IF asks /\ ~through.ok
       THEN Abort
       ELSE /\ cache' = IF asks THEN through.cache ELSE fetched.cache
            /\ updated' = Append1(updated, final)
            /\ processed' = processed + 1
            /\ idx' = idx + 1
            /\ UNCHANGED <<cpc, in_items>>

\* clean_metadata_with_llm.main 421-428: the lookup by the movie
MovieLookup(movie, language, wo) ==
    IF args.wiki /\ language = "tamil" /\ Truthy(movie) /\ WikiKey(movie.val) # <<>>
    THEN FetchThrough(cache, S_wiki, WikiKey(movie.val), wo, WikiResult(wo))
    ELSE NoFetch(cache)

\* clean_metadata_with_llm.main 430-458 once the model has been asked or the
\* cache has answered
MetadataApply(cleaned, language, should_call, wiki_key, wo, fetched, key, payload, through) ==
    ItemDone(S_wiki, wiki_key, wo, fetched, should_call, key, payload, through,
             FillUnknown(IF should_call
                         THEN ApplyResult(cleaned, through.result, language)
                         ELSE cleaned, args.fill_unknown))

\* clean_metadata_with_llm.main 434-451: payload, key, cache check, call
MetadataAsk(cleaned, language, wiki_key, wo, fetched, key, payload, llm) ==
    MetadataApply(cleaned, language, args.llm \/ NeedsLlm(cleaned), wiki_key, wo,
                  fetched, key, payload, ThroughCache(fetched.cache, key, payload, llm))

\* clean_metadata_with_llm.main 434-437 after the lookup
MetadataFetched(item, cleaned, language, movie, wo, fetched, llm) ==
    MetadataAsk(cleaned, language, IF Truthy(movie) THEN WikiKey(movie.val) ELSE <<>>,
                wo, fetched, CacheKey(input_name, item, idx),
                WithWikipedia(BuildLlmPayload(cleaned, language), fetched.data), llm)

\* clean_metadata_with_llm.main 421-428 with what the reference site and the
\* model answer
MetadataCleaned(item, language, cleaned) ==
    \E wo \in WikiOutcomes, llm \in LlmOutcomes("metadata") :
        MetadataFetched(item, cleaned, language, Get(cleaned, "movie"), wo,
                        MovieLookup(Get(cleaned, "movie"), language, wo), llm)

\* clean_metadata_with_llm.main 413-459: the loop body for one item
CleanItem ==
    /\ cleaner = "metadata" /\ AtItem
    /\ MetadataCleaned(in_items[idx + 1], DetermineLanguage(input_name),
                       Cleaned(in_items[idx + 1], DetermineLanguage(input_name)))
    /\ UNCHANGED <<cleaner, args, input_name, cache_file, out_file, runs, saved_runs,
                   cache_type, loaded>>
    /\ UNCHANGED <<buildVars, reconVars, callVars>>

\* clean_metadata_album_with_llm.main 385-391: the lookup by title and artists
AlbumLookup(works, title, artists, wo) ==
    IF works /\ args.wiki
    THEN FetchThrough(cache, S_wiki_album, WikiAlbumKey(title, artists), wo,
                      WikiAlbumResult(wo))
    ELSE NoFetch(cache)

\* "if wiki_data: wiki_album = _normalize_album(wiki_data.get("album"))"
WikiAlbum(fetched) ==
    IF fetched.data # JNull /\ ~fetched.raised
    THEN NormalizeAlbum(fetched.data.album) ELSE JNull

\* clean_metadata_album_with_llm.main 393-418: result_album
ResultAlbum(wiki_album, asks, through) ==
    IF wiki_album # JNull THEN wiki_album
    ELSE IF asks THEN NormalizeAlbum(DictGet(through.result, "album", JNull))
    ELSE JNull

\* "if result_album != cleaned.get("album"): cleaned["album"] = result_album"
WithAlbum(cleaned, works, result_album) ==
    IF works /\ result_album # Get(cleaned, "album")
    THEN DictSet(cleaned, "album", result_album) ELSE cleaned

\* clean_metadata_album_with_llm.main 393-425 once the album is known
AlbumApply(cleaned, works, wiki_key, wo, fetched, wiki_album, asks, key, payload, through) ==
    ItemDone(S_wiki_album, wiki_key, wo, fetched, asks, key, payload, through,
             WithAlbum(cleaned, works, ResultAlbum(wiki_album, asks, through)))

\* clean_metadata_album_with_llm.main 395-416: the fallback to the model
AlbumAsk(cleaned, works, wiki_key, wo, fetched, wiki_album, key, payload, llm) ==
    AlbumApply(cleaned, works, wiki_key, wo, fetched, wiki_album,
               works /\ wiki_album = JNull /\ args.llm, key, payload,
               ThroughCache(fetched.cache, key, payload, llm))

\* clean_metadata_album_with_llm.main 388-404 after the lookup
AlbumFetched(item, cleaned, language, works, wiki_key, wo, fetched, llm) ==
    AlbumAsk(cleaned, works, wiki_key, wo, fetched, WikiAlbum(fetched),
             CacheKey(input_name, item, idx),
             WithWikipedia(BuildPayload(cleaned, language), fetched.data), llm)

\* "if not title or not artists: updated.append(cleaned); continue" is the
\* case works = FALSE
AlbumTitled(item, language, cleaned, title, artists, works) ==
    \E wo \in WikiOutcomes, llm \in LlmOutcomes("album") :
        AlbumFetched(item, cleaned, language, works,
                     IF works THEN WikiAlbumKey(title, artists) ELSE <<>>, wo,
                     AlbumLookup(works, title, artists, wo), llm)

\* clean_metadata_album_with_llm.main 376-381: title, artists
AlbumCleaned(item, language, cleaned) ==
    AlbumTitled(item, language, cleaned, Get(cleaned, "title").val,
                Get(cleaned, "singers").val,
                Get(cleaned, "title").val # <<>> /\ Get(cleaned, "singers").val # <<>>)

\* clean_metadata_album_with_llm.main 370-424: the loop body for one item
AlbumItem ==
    /\ cleaner = "album" /\ AtItem
    /\ AlbumCleaned(in_items[idx + 1], DetermineLanguage(input_name),
                    Cleaned(in_items[idx + 1], DetermineLanguage(input_name)))
    /\ UNCHANGED <<cleaner, args, input_name, cache_file, out_file, runs, saved_runs,
                   cache_type, loaded>>
    /\ UNCHANGED <<buildVars, reconVars, callVars>>

\* after the loop: _write_output(out_path, updated); _save_cache(cache_path, cache)
FinishRun ==
    /\ cleaner # "none" /\ cpc = "loop" /\ idx = Len(in_items)
    /\ out_file' = <<updated>>
    /\ cache_file' = IF cache_type = "dict" THEN <<cache>> ELSE Unusable("array")
    /\ saved_runs' = saved_runs \cup {runs}
    /\ cpc' = "idle"
    /\ UNCHANGED <<cleaner, args, input_name, in_items, idx, processed, updated,
                   cache, runs, served, lookups, cache_type, loaded>>
    /\ UNCHANGED <<buildVars, reconVars, callVars>>

NextCache ==
    \/ StartRun
    \/ SkipItem
    \/ LimitReached
    \/ CleanItem
    \/ AlbumItem
    \/ FinishRun

InitCache ==
    /\ BuildIdle /\ ReconIdle /\ CallIdle
    /\ cleaner \in {"metadata", "album"}
    /\ args \in ArgsMenu
    /\ input_name = IF cleaner = "metadata" THEN S_tamil_json ELSE S_english_json
    /\ cpc = "idle" /\ in_items = <<>> /\ idx = 0 /\ processed = 0 /\ updated = <<>>
    /\ cache = EmptyDict /\ cache_file = <<>> /\ out_file = <<>>
    /\ runs = 0 /\ saved_runs = {} /\ served = <<>> /\ lookups = <<>>
    /\ cache_type = "dict" /\ loaded = <<>>

SpecCache == InitCache /\ [][NextCache]_vars

-----------------------------------------------------------------------------
(* Properties of the enrichment cache *)

\* the entry stored at processing i is in the cache that processing j reads:
\* same process, or an earlier process that saved the cache file
Visible(i, j) ==
    \/ served[i].run = served[j].run
    \/ served[i].run \in saved_runs

SamePair(i, j) ==
    /\ served[i].key = served[j].key
    /\ served[i].hash = served[j].hash

\* j is the next processing under the cache key of i
NextUnderKey(i, j) ==
    /\ i < j
    /\ served[i].key = served[j].key
    /\ \A k \in (i + 1)..(j - 1) : served[k].key # served[i].key

\* C4: when an item is processed twice in a row under one cache key with
\* the same payload hash, in one run or in a later run started after the
\* earlier run saved the cache file, the second processing makes no call to
\* the model and returns the result the first one had, so the model is
\* called once at most for the two.
C4_SecondProcessingFromCache ==
    \A i, j \in 1..Len(served) :
        (NextUnderKey(i, j) /\ SamePair(i, j) /\ served[i].ok /\ Visible(i, j))
            => /\ ~served[j].called
               /\ served[j].result = served[i].result

\* a payload is answered by the model, again from the cache in the same
\* run, and again from the cache file in the next run
C4_Witness ==
    \E i, j, k \in 1..Len(served) :
        /\ NextUnderKey(i, j) /\ SamePair(i, j) /\ NextUnderKey(j, k) /\ SamePair(j, k)
        /\ served[i].called /\ served[i].ok
        /\ served[i].run = served[j].run /\ served[j].run # served[k].run
        /\ served[i].run \in saved_runs
        /\ ~served[j].called /\ ~served[k].called

\* C5 as stated: the model is called at most once for each pair of cache key
\* and payload, whatever is presented under the key in between (counting
\* only calls that succeeded in runs whose cache reached later processings).
C5_OneCallPerPair ==
    \A i, j \in 1..Len(served) :
        (i < j /\ SamePair(i, j) /\ served[i].called /\ served[i].ok /\ Visible(i, j))
            => ~served[j].called

\* the entry under the key of processing j when j reads the cache: the last
\* successful call under the key that j can see
Stores(i, j) ==
    /\ i < j
    /\ served[i].key = served[j].key
    /\ served[i].called /\ served[i].ok
    /\ Visible(i, j)

LastStore(i, j) ==
    /\ Stores(i, j)
    /\ \A k \in (i + 1)..(j - 1) : ~Stores(k, j)

\* C5 amended: the cache holds one entry per cache key, so the model is
\* called for a payload exactly when the last result stored under its cache
\* key was stored for another payload, or nothing is stored under the key.
C5_CalledIffLastStoreDiffers ==
    \A j \in 1..Len(served) :
        served[j].called <=>
            ~\E i \in 1..Len(served) :
                LastStore(i, j) /\ served[i].hash = served[j].hash

\* payload, another payload, the first payload again under one key: three
\* calls, every one stored
C5_Witness ==
    \E i, k, j \in 1..Len(served) :
        /\ LastStore(i, k) /\ LastStore(k, j)
        /\ served[i].hash = served[j].hash /\ served[i].hash # served[k].hash
        /\ served[j].called /\ served[j].ok

\* the lookup of the outcome failed: a network error, or an answer that
\* lacks the expected fields (no results is an answer, not a failure)
LookupFailed(outcome) ==
    \/ outcome.search \in {"lacking", "raises"}
    \/ outcome.search = "hit" /\ outcome.page \in {"lacking", "raises"}

\* C6: a failed lookup or a failed model call leaves no entry, null or
\* otherwise, under the query key or the item key.
C6_FailureNeverCached ==
    /\ \A i \in 1..Len(lookups) :
          LookupFailed(lookups[i].outcome) => ~lookups[i].stored
    /\ \A j \in 1..Len(served) :
          (~served[j].ok /\ cpc = "idle" /\ j = Len(served))
              => ~CacheHit(cache, served[j].key, served[j].hash)

-----------------------------------------------------------------------------
(* The clips of a row: both builds over directories with some clips *)

S_a_x_dup == <<"a","-","x","-","d","u","p">>
S_x_dup == <<"x","-","d","u","p">>

\* two songs, each of which may come twice or three times in the CSV
ClipRowMenu ==
    { CsvRow(S_x, <<>>, S_A, S_uri3),
      CsvRow(S_y, <<>>, S_A, S_uri2) }

\* --durations as parsed: one value, two values in either order, a value
\* given twice
DurationMenu == { <<1>>, <<1, 2>>, <<2, 1>>, <<1, 1>>, <<2, 1, 2>> }

\* the previews of the first song and of its first duplicate are on disk, the
\* preview of the second song is not; of the clips any may be missing
InitClips ==
    /\ LoopStart
    /\ script \in {"english", "tamil"}
    /\ rows \in SeqsUpTo(ClipRowMenu, MaxRows)
    /\ mp3s = (IF script = "english" THEN {S_a_x, S_a_x_dup} ELSE {S_x, S_x_dup})
    /\ clips \in SUBSET {<<n, d>> : n \in mp3s, d \in {1, 2}}
    /\ durations \in DurationMenu
    /\ require_all \in BOOLEAN
    /\ only_preview = None
    /\ overrides = EmptyDict

NextClips ==
    \/ EnglishRow
    \/ EnglishAdmit
    \/ TamilRow
    \/ TamilAdmit
    \/ WhileStep
    \/ WriteCatalog

SpecClips == InitClips /\ [][NextClips]_vars

Requested == {durations[j] : j \in 1..Len(durations)}

\* a clip file exists for every requested duration of the preview
AllClipsOnDisk(preview) == \A d \in Requested : <<preview, d>> \in clips

\* C11: with --require-all-durations, a row whose preview resolved is
\* admitted if and only if a clip file exists for every requested duration,
\* whatever the order of the list and whether or not it repeats a value.
C11_AdmittedIffAllClips ==
    (script \in {"english", "tamil"} /\ require_all) =>
        \A i \in 1..Len(chosen) :
            chosen[i].preview # None =>
                (chosen[i].emitted <=> AllClipsOnDisk(chosen[i].preview))

\* C12: every record of the catalog has a non-empty audio mapping; each key
\* is a requested duration whose clip file of the row's preview is on disk;
\* a requested duration without a file is absent from the mapping and the
\* build goes on to write the catalog.
C12_AudioIsClipsOnDisk ==
    script \in {"english", "tamil"} =>
        /\ \A k \in 1..Len(items) :
              /\ DOMAIN items[k].audio # {}
              /\ \A d \in DOMAIN items[k].audio :
                    /\ d \in Requested
                    /\ items[k].audio[d] \in clips
                    /\ items[k].audio[d][2] = d
        /\ \A i \in Emitted :
              /\ \E k \in 1..Len(items) : items[k].audio = chosen[i].audio
              /\ \A d \in Requested :
                    <<chosen[i].preview, d>> \notin clips
                        => d \notin DOMAIN chosen[i].audio
        /\ Len(items) = Cardinality(Emitted)
        /\ pc = "done" => Len(written) = Len(items)

\* a catalog was written with a record that has the one-second clip and
\* lacks the requested two-second clip
C12_Witness ==
    /\ script \in {"english", "tamil"} /\ pc = "done"
    /\ 2 \in Requested
    /\ \E k \in 1..Len(written) :
          /\ DOMAIN written[k].audio = {1}
          /\ <<written[k].audio[1][1], 2>> \notin clips

-----------------------------------------------------------------------------
(* The override pass of the Tamil build *)

S_x_m == <<"x","-","m">>
S_z == <<"z">>

\* two songs of the movie M, the first by two artists, its uri padded
OvSongMenu ==
    { CsvRow(S_x, S_M, <<"A",";","B">>, S_uri2 \o <<" ">>),
      CsvRow(S_x, S_M, S_A, S_uri3) }

OvRec(track_uri, id, title, movie, album, music_director, singers, hero, heroine, skip) ==
    [track_uri |-> track_uri, id |-> id, title |-> title, movie |-> movie,
     album |-> album, music_director |-> music_director, singers |-> singers,
     hero |-> hero, heroine |-> heroine, skip |-> skip]

\* rows of overrides.csv: every field given; two fields given; a truthy skip;
\* a skip that is not truthy; padded cells and a cell of white space
OvRecMenu ==
    { OvRec(S_uri2, S_z, <<"T">>, <<"N">>, <<"L">>, <<"D">>, <<"Y",",","Z">>, <<"H">>, <<"G">>, <<>>),
      OvRec(S_uri3, <<>>, <<>>, <<"N">>, <<>>, <<>>, <<"Y",";"," ","Z","|","W","/","V">>, <<>>, <<>>, <<>>),
      OvRec(S_uri3, <<>>, <<"T">>, <<>>, <<>>, <<>>, <<>>, <<>>, <<>>, <<"Y","e","s">>),
      OvRec(S_uri2, <<>>, <<>>, <<>>, <<>>, <<>>, <<>>, <<"H">>, <<>>, <<"n","o">>),
      OvRec(<<" ","l","o","c","a","l",":","2">>, <<" ","z"," ">>, <<" ">>, <<>>, <<>>, <<>>, <<>>, <<>>, <<>>, <<" ","T","R","U","E"," ">>) }

InitOverrides ==
    /\ LoopStart
    /\ script = "tamil"
    /\ rows \in SeqsUpTo(OvSongMenu, MaxRows)
    /\ mp3s = {S_x, S_x_m}
    /\ clips \in {{<<n, 1>> : n \in mp3s}, {<<S_x, 1>>}}
    /\ durations = <<1>>
    /\ require_all = FALSE
    /\ only_preview = None
    /\ \E ovrows \in SeqsUpTo(OvRecMenu, MaxOverrides) :
            overrides = LoadOverrides(ovrows)

SpecOverrides == InitOverrides /\ [][NextTamil]_vars

\* the record appended for the i-th row that got as far as the while loop
ItemOf(i) == items[Cardinality({j \in 1..i : chosen[j].emitted})]

\* the fields an override replaces as they are
PlainFields == {"id", "title", "movie", "album", "music_director", "hero", "heroine"}

\* C13: a Tamil row that has audio is looked up in the overrides by its track
\* URI after the heuristics; a non-empty override value is what the record
\* carries (singers split on , ; | /), a field without an override value keeps
\* what the heuristics gave, and a truthy skip (1, true, yes, y in any case)
\* removes the record.
C13_OverridesWin ==
    script = "tamil" =>
        \A i \in 1..Len(chosen) :
            LET c    == chosen[i]
                heur == HeuristicItem(c.row, c.id, c.audio)
            IN  (c.preview # None /\ DOMAIN c.audio # {}) =>
                  IF c.row.uri \notin DOMAIN overrides
                  THEN c.emitted /\ ItemOf(i) = heur
                  ELSE LET ov == overrides[c.row.uri]
                       IN  IF ToLower(ov.skip) \in SkipValues
                           THEN ~c.emitted
                           ELSE /\ c.emitted
                                /\ \A f \in PlainFields :
                                      ItemOf(i)[f] = (IF ov[f] # <<>> THEN ov[f] ELSE heur[f])
                                /\ ItemOf(i).singers =
                                      (IF ov.singers # <<>> THEN SplitPeopleTa(ov.singers)
                                       ELSE heur.singers)
                                /\ ItemOf(i).audio = heur.audio
                                /\ ItemOf(i).track_uri = heur.track_uri

\* a catalog with a record carrying the override's id and singers Y and Z,
\* written by a run that also dropped a row with audio on a skip
C13_Witness ==
    /\ script = "tamil" /\ pc = "done"
    /\ \E k \in 1..Len(written) :
          /\ written[k].id = S_z
          /\ written[k].singers = <<<<"Y">>, <<"Z">>>>
          /\ written[k].heroine = <<"G">>
    /\ \E i \in 1..Len(chosen) :
          /\ chosen[i].preview # None /\ DOMAIN chosen[i].audio # {}
          /\ ~chosen[i].emitted

-----------------------------------------------------------------------------
(* The helper functions called on their own *)

Call(fn, a, b) == [fn |-> fn, a |-> a, b |-> b]

S_big_movie == <<"B","i","g"," ","M","o","v","i","e">>

\* titles: without a movie, with a quoted movie, with an unquoted one, with
\* quotes around white space, with two parentheses
MovieTitleMenu ==
    { S_x,
      <<"x"," ","(","F","r","o","m"," ","\"","N","\"",")">>,
      <<"x"," ","(","f","r","o","m"," "," ","N"," ",")">>,
      <<"x"," ","(","F","r","o","m"," ","\""," ","\"",")">>,
      <<"x"," ","(","F","R","O","M"," ","'","K","'",")"," ","(","F","r","o","m"," ","\"","N","\"",")">>,
      <<"S","o","n","g"," ","N","a","m","e"," ","(","F","r","o","m"," ","\"","B","i","g"," ","M","o","v","i","e","\"",")">> }

\* albums: none, a movie's name, soundtrack boilerplate in its three forms,
\* compilations, albums that name a movie in parentheses
MovieAlbumMenu ==
    { <<>>,
      S_M,
      <<"B","i","g"," ","M","o","v","i","e"," ","(","O","r","i","g","i","n","a","l"," ","M","o","t","i","o","n"," ","P","i","c","t","u","r","e"," ","S","o","u","n","d","t","r","a","c","k",")">>,
      <<"M"," ","(","o","r","i","g","i","n","a","l"," ","m","o","t","i","o","n"," ","p","i","c","t","u","r","e"," ","s","o","u","n","d","t","r","a","c","k",")"," ","-"," ","T","a","m","i","l">>,
      <<"M"," ","-"," ","O","r","i","g","i","n","a","l"," ","M","o","t","i","o","n"," ","P","i","c","t","u","r","e"," ","S","o","u","n","d","t","r","a","c","k">>,
      <<"T","a","m","i","l"," ","H","i","t","s"," ","V","o","l","."," ","3">>,
      <<"T","O","P"," ","M">>,
      <<"B"," ","(","F","r","o","m"," ","\"","N","2","\"",")">>,
      <<"L","o","v","e"," ","(","F","r","o","m"," ","K",")">> }

MovieCalls == {Call("infer_movie", t, al) : t \in MovieTitleMenu, al \in MovieAlbumMenu}

\* build_tamil_metadata.main 335 on the normalised title and album of a row
CallInferMovie ==
    /\ call.fn = "infer_movie" /\ ret = <<>>
    /\ ret' = <<InferMovie(NormalizeTitleTa(call.a), NormalizeTitleTa(call.b))>>
    /\ UNCHANGED call
    /\ UNCHANGED <<buildVars, reconVars, cacheVars>>

MaxArtists == 3

\* a director under the name the table shows and under a shorter key, two
\* lyricists, a singer
ArtistPool ==
    { <<"A","."," ","R","."," ","R","a","h","m","a","n">>, <<"A","n","i","r","u","d","h">>, <<"V","a","i","r","a","m","u","t","h","u">>, <<"N","a","."," ","M","u","t","h","u","k","u","m","a","r">>, <<"Y">> }

\* build_tamil_metadata.main 346-348: the artists of a row, never none, and
\* the director guessed from them
SingerCalls ==
    { Call("guess_singers", artists, GuessMusicDirector(artists)) :
        artists \in SeqsUpTo(ArtistPool, MaxArtists) \ {<<>>} }

\* build_tamil_metadata.main 348: _guess_singers(artists_list, music_director)
CallGuessSingers ==
    /\ call.fn = "guess_singers" /\ ret = <<>>
    /\ ret' = <<GuessSingers(call.a, call.b)>>
    /\ UNCHANGED call
    /\ UNCHANGED <<buildVars, reconVars, cacheVars>>

\* KEY_NAMES
KeyNames ==
    << <<"C">>, <<"C","#","/","D","b">>, <<"D">>, <<"D","#","/","E","b">>, <<"E">>, <<"F">>, <<"F","#","/","G","b">>, <<"G">>,
       <<"G","#","/","A","b">>, <<"A">>, <<"A","#","/","B","b">>, <<"B">> >>

DecDigits == {"0", "1", "2", "3", "4", "5", "6", "7", "8", "9"}

DigitValue(c) == CHOOSE v \in 0..9 : DecStr(v) = <<c>>

RECURSIVE DigitsValue(_)
DigitsValue(ds) ==
    IF ds = <<>> THEN 0
    ELSE 10 * DigitsValue(SubSeq(ds, 1, Len(ds) - 1)) + DigitValue(ds[Len(ds)])

\* float(text) for text without exponent and without underscores:
\* <<"error">> for the ValueError, <<"nan">>, <<"inf">>, or
\* <<"num", negative, whole part, whether the fraction is not zero>>
ParseFloat(text) ==
    LET t      == ToLower(Strip(text))
        signed == t # <<>> /\ t[1] \in {"+", "-"}
        neg    == t # <<>> /\ t[1] = "-"
        body   == IF signed THEN Tail(t) ELSE t
        dots   == {i \in 1..Len(body) : body[i] = "."}
        whole  == IF dots = {} THEN body ELSE SubSeq(body, 1, MinOf(dots) - 1)
        frac   == IF dots = {} THEN <<>> ELSE SubSeq(body, MinOf(dots) + 1, Len(body))
    IN  IF body \in {<<"i","n","f">>, <<"i","n","f","i","n","i","t","y">>} THEN <<"inf">>
        ELSE IF body = <<"n","a","n">> THEN <<"nan">>
        ELSE IF /\ \A i \in 1..Len(body) : body[i] \in DecDigits \cup {"."}
                /\ Cardinality(dots) <= 1
                /\ Len(whole) + Len(frac) > 0
        THEN <<"num", neg, DigitsValue(whole),
               \E i \in 1..Len(frac) : frac[i] # "0">>
        ELSE <<"error">>

\* int(float(text)): <<"int", n>> truncated towards zero, <<"ValueError">>
\* for text that is no number and for nan, <<"OverflowError">> for infinity
IntOfFloat(text) ==
    LET f == ParseFloat(text)
    IN  IF f[1] = "num" THEN <<"int", IF f[2] THEN 0 - f[3] ELSE f[3]>>
        ELSE IF f[1] = "inf" THEN <<"OverflowError">>
        ELSE <<"ValueError">>

\* _format_key(key_raw, mode_raw): <<"return", value>>, or <<"raise", e>> for
\* the exception that no except clause of the function catches
FormatKey(key_raw, mode_raw) ==
    LET k == IntOfFloat(key_raw)
        m == IntOfFloat(mode_raw)
    IN  IF k[1] = "ValueError" THEN <<"return", None>>
        ELSE IF k[1] = "OverflowError" THEN <<"raise", "OverflowError">>
        ELSE IF k[2] = -1 THEN <<"return", None>>
        ELSE IF k[2] < 0 \/ k[2] >= Len(KeyNames) THEN <<"return", None>>
        ELSE IF m[1] = "OverflowError" THEN <<"raise", "OverflowError">>
        ELSE LET name == KeyNames[k[2] + 1]
             IN  IF m[1] = "int" /\ m[2] = 1 THEN <<"return", name \o <<" ","m","a","j","o","r">>>>
                 ELSE IF m[1] = "int" /\ m[2] = 0 THEN <<"return", name \o <<" ","m","i","n","o","r">>>>
                 ELSE <<"return", name>>

MaxKey == 12

\* the Key column: absent or empty, whole numbers, -1, text that is no
\* number, numbers with a fraction, padded, and the words float() reads
KeyMenu ==
    {DecStr(k) : k \in 0..MaxKey}
        \cup { <<>>, <<"-","1">>, <<"-","2">>, <<"a","b","c">>, <<" ","7"," ">>, <<"3",".","0">>, <<"1",".","9">>, <<"-","0",".","5">>,
               <<"n","a","n">>, <<"i","n","f">> }

ModeMenu == { <<>>, <<"1">>, <<"0">>, <<"2">>, <<"-","1">>, <<"x">>, <<" ","1",".","0"," ">>, <<"i","n","f">> }

KeyCalls == {Call("format_key", k, m) : k \in KeyMenu, m \in ModeMenu}

\* build_english_metadata.main 219, build_tamil_metadata.main 376:
\* _format_key(row.get("Key", ""), row.get("Mode", ""))
CallFormatKey ==
    /\ call.fn = "format_key" /\ ret = <<>>
    /\ ret' = <<FormatKey(call.a, call.b)>>
    /\ UNCHANGED call
    /\ UNCHANGED <<buildVars, reconVars, cacheVars>>

MaxTitleTokens == 5

\* the pieces titles are made of
TitleTokens == { <<"x">>, <<" ">>, <<"(">>, <<"(","f","r","o","m">>, <<")">>, <<"f","r","o","m">>, <<"f","t","."," ","y">> }

RECURSIVE Flatten(_)
Flatten(ss) == IF ss = <<>> THEN <<>> ELSE Head(ss) \o Flatten(Tail(ss))

TitleCalls ==
    { Call("normalize_title", Flatten(toks), language) :
        toks \in SeqsUpTo(TitleTokens, MaxTitleTokens),
        language \in {"tamil", "english"} }

\* clean_metadata_with_llm.main 417: _normalize_title(title, language=language)
CallNormalizeTitle ==
    /\ call.fn = "normalize_title" /\ ret = <<>>
    /\ ret' = <<NormalizeTitle(call.a, call.b)>>
    /\ UNCHANGED call
    /\ UNCHANGED <<buildVars, reconVars, cacheVars>>

\* the cleaned title given to _normalize_title once more, as a later run
\* over the cleaned file does
CallNormalizeTitleAgain ==
    /\ call.fn = "normalize_title" /\ Len(ret) = 1
    /\ ret' = <<ret[1], NormalizeTitle(ret[1], call.b)>>
    /\ UNCHANGED call
    /\ UNCHANGED <<buildVars, reconVars, cacheVars>>

InitCalls ==
    /\ BuildIdle /\ ReconIdle /\ CacheIdle
    /\ call \in MovieCalls \cup SingerCalls \cup KeyCalls \cup TitleCalls
    /\ ret = <<>>

NextCalls ==
    \/ CallInferMovie
    \/ CallGuessSingers
    \/ CallFormatKey
    \/ CallNormalizeTitle
    \/ CallNormalizeTitleAgain

SpecCalls == InitCalls /\ [][NextCalls]_vars

\* C14: the movie of a row is fixed by the first of three steps that yields
\* one: the "(From X)" patterns on the title (the quoted one before the
\* unquoted one), the same patterns on the album, the cleaning of the album,
\* which yields no movie when the album contains a compilation hint in any
\* case and otherwise the album without its soundtrack boilerplate.
C14_FirstStepFixesMovie ==
    (call.fn = "infer_movie" /\ ret # <<>>) =>
        LET title   == NormalizeTitleTa(call.a)
            album   == NormalizeTitleTa(call.b)
            byTitle == ExtractMovieFromText(title)
            byAlbum == ExtractMovieFromText(album)
            hinted  == \E hint \in CompilationHints : Contains(ToLower(album), hint)
        IN  /\ byTitle # None => ret[1] = byTitle
            /\ (byTitle = None /\ byAlbum # None) => ret[1] = byAlbum
            /\ (byTitle = None /\ byAlbum = None /\ hinted) => ret[1] = None
            /\ (byTitle = None /\ byAlbum = None /\ ~hinted) =>
                  ret[1] = CleanAlbumToMovie(album)
            \* the quoted pattern before the unquoted one
            /\ call.a = <<"x"," ","(","F","r","o","m"," ","\"","N","\"",")">> => ret[1] = <<"N">>
            /\ call.a = <<"x"," ","(","F","R","O","M"," ","'","K","'",")"," ","(","F","r","o","m"," ","\"","N","\"",")">> => ret[1] = <<"K">>
            /\ call.a = <<"x"," ","(","f","r","o","m"," "," ","N"," ",")">> => ret[1] = <<"N">>
            /\ call.a = <<"S","o","n","g"," ","N","a","m","e"," ","(","F","r","o","m"," ","\"","B","i","g"," ","M","o","v","i","e","\"",")">> => ret[1] = S_big_movie
            /\ (call.a = S_x /\ call.b = <<"B"," ","(","F","r","o","m"," ","\"","N","2","\"",")">>) => ret[1] = <<"N","2">>
            /\ (call.a = S_x /\ call.b = <<"L","o","v","e"," ","(","F","r","o","m"," ","K",")">>) => ret[1] = <<"K">>
            \* the cleaning of the album
            /\ (call.a = S_x /\ call.b = <<"B","i","g"," ","M","o","v","i","e"," ","(","O","r","i","g","i","n","a","l"," ","M","o","t","i","o","n"," ","P","i","c","t","u","r","e"," ","S","o","u","n","d","t","r","a","c","k",")">>)
                  => ret[1] = S_big_movie
            /\ (call.a = S_x /\ call.b = <<"M"," ","(","o","r","i","g","i","n","a","l"," ","m","o","t","i","o","n"," ","p","i","c","t","u","r","e"," ","s","o","u","n","d","t","r","a","c","k",")"," ","-"," ","T","a","m","i","l">>)
                  => ret[1] = <<"M"," ","-"," ","T","a","m","i","l">>
            /\ (call.a = S_x /\ call.b = <<"M"," ","-"," ","O","r","i","g","i","n","a","l"," ","M","o","t","i","o","n"," ","P","i","c","t","u","r","e"," ","S","o","u","n","d","t","r","a","c","k">>)
                  => ret[1] = S_M
            /\ (call.a = S_x /\ call.b = <<"T","a","m","i","l"," ","H","i","t","s"," ","V","o","l","."," ","3">>) => ret[1] = None
            /\ (call.a = S_x /\ call.b = <<"T","O","P"," ","M">>) => ret[1] = None
            /\ (call.a = S_x /\ call.b = S_M) => ret[1] = S_M
            /\ (call.a = S_x /\ call.b = <<>>) => ret[1] = None

\* the title names a movie and the album names another one in parentheses:
\* the title's movie is the result
C14_Witness ==
    /\ call.fn = "infer_movie"
    /\ call.a = <<"x"," ","(","F","r","o","m"," ","\"","N","\"",")">> /\ call.b = <<"B"," ","(","F","r","o","m"," ","\"","N","2","\"",")">>
    /\ ret = <<<<"N">>>>

\* r is a subsequence of s, in the order of s
IsSubsequence(r, s) ==
    \E f \in [1..Len(r) -> 1..Len(s)] :
        /\ \A k \in 1..Len(r) : r[k] = s[f[k]]
        /\ \A k \in 1..(Len(r) - 1) : f[k] < f[k + 1]

IsLyricist(a) == CanonPerson(a) \in {CanonPerson(x) : x \in KnownLyricists}

\* C15: the singers are a subsequence of the artists in their order, none of
\* them a known lyricist; with a director inferred none of them has the
\* director's canonical key, unless that would leave no singer, and then the
\* artists that are not lyricists are all kept; the result is empty only
\* when every artist is a known lyricist.
C15_SingersByElimination ==
    (call.fn = "guess_singers" /\ ret # <<>>) =>
        LET artists == call.a
            md      == call.b
            r       == ret[1]
            singing == SelectSeq(artists, LAMBDA a : ~IsLyricist(a))
            isMd(a) == md # None /\ CanonPerson(a) = CanonPerson(md)
        IN  /\ IsSubsequence(r, artists)
            /\ \A k \in 1..Len(r) : ~IsLyricist(r[k])
            /\ md # None =>
                  IF \E k \in 1..Len(singing) : ~isMd(singing[k])
                  THEN \A k \in 1..Len(r) : ~isMd(r[k])
                  ELSE r = singing
            /\ r = <<>> <=> \A k \in 1..Len(artists) : IsLyricist(artists[k])

\* the director and a lyricist are the only artists: the director is kept
C15_Witness ==
    /\ call.fn = "guess_singers"
    /\ call.a = <<<<"V","a","i","r","a","m","u","t","h","u">>, <<"A","."," ","R","."," ","R","a","h","m","a","n">>>>
    /\ call.b = <<"A","."," ","R","."," ","R","a","h","m","a","n">>
    /\ ret = << <<<<"A","."," ","R","."," ","R","a","h","m","a","n">>>> >>

\* the whole number a text of the Key or Mode column writes, as <<n>>;
\* <<>> for other texts
WholeNumber(text) ==
    LET f == ParseFloat(text)
    IN  IF f[1] = "num" /\ ~f[4] THEN <<IF f[2] THEN 0 - f[3] ELSE f[3]>> ELSE <<>>

\* the suffix the mode stands for
ModeSuffix(text) ==
    IF WholeNumber(text) = <<1>> THEN <<" ","m","a","j","o","r">>
    ELSE IF WholeNumber(text) = <<0>> THEN <<" ","m","i","n","o","r">>
    ELSE <<>>

\* C16: _format_key returns for every raw key and mode, never raises; a key
\* of -1, a key outside 0..11, a key that is no number or is absent gives
\* None; a key k in 0..11 gives the k-th pitch name, followed by " major" for
\* mode 1, by " minor" for mode 0, by nothing for another or an absent mode.
C16_KeyNameOrNone ==
    (call.fn = "format_key" /\ ret # <<>>) =>
        LET k == WholeNumber(call.a)
            f == ParseFloat(call.a)
        IN  /\ ret[1][1] = "return"
            /\ (k # <<>> /\ k[1] \in 0..11) =>
                  ret[1][2] = KeyNames[k[1] + 1] \o ModeSuffix(call.b)
            /\ (k # <<>> /\ k[1] \notin 0..11) => ret[1][2] = None
            /\ (f[1] = "num" /\ f[2] /\ f[4]) => ret[1][2] = None
            /\ f[1] \in {"error", "nan", "inf"} => ret[1][2] = None
            /\ (call.a = <<"0">> /\ call.b = <<"1">>) => ret[1][2] = <<"C"," ","m","a","j","o","r">>
            /\ (call.a = <<"1","1">> /\ call.b = <<"0">>) => ret[1][2] = <<"B"," ","m","i","n","o","r">>
            /\ (call.a = <<"-","1">> /\ call.b = <<"1">>) => ret[1][2] = None

\* C17: _normalize_title is idempotent: for every title and language the
\* title normalised twice is the title normalised once.
C17_NormalizeTitleIdempotent ==
    (call.fn = "normalize_title" /\ Len(ret) = 2) => ret[2] = ret[1]

-----------------------------------------------------------------------------
(* The filter run again *)

\* the base pool holds x1 and x2; x1 comes in once or twice, x2 has a file
\* in place of its clip folder
RerunIncoming ==
    { <<Song(S_x1, <<"T","u","n","e">>, JNull, 2)>>,
      <<Song(S_x1, <<"T","u","n","e">>, JNull, 2), Song(S_x1, <<"T","u","n","e">>, JNull, 3)>>,
      <<Song(S_x1, <<"T","u","n","e">>, JNull, 2), Song(S_x2, <<"A","i","r">>, JNull, 2)>>,
      <<Song(S_x3, <<"O","t","h","e","r">>, JNull, 2), Song(<<" ","x","1"," ">>, <<"T","u","n","e">>, JNull, 2)>> }

InitRerun ==
    /\ BuildIdle /\ CacheIdle /\ CallIdle
    /\ tool = "filter" /\ rpc = "base" /\ ridx = 0 /\ filter_runs = 1
    /\ base_items = <<Song(S_x1, <<"S","o","n","g">>, JNull, 1), Song(S_x2, <<"A","i","r">>, JNull, 1)>>
    /\ incoming_items \in RerunIncoming
    /\ duplicate_mode \in {"id", "title_singers", "both"}
    /\ \E w \in FilterWorlds :
            dry_run = w[1] /\ clips_root = w[2] /\ duplicates_dir = w[3]
    /\ base_keys = {} /\ non_duplicates = <<>> /\ duplicates = <<>>
    /\ prefer_second = FALSE /\ merged = <<>> /\ index = EmptyDict
    /\ added = 0 /\ replaced = 0 /\ out_json = <<>>

NextRerun ==
    \/ FilterBuildKeys
    \/ FilterItem
    \/ FilterWrite
    \/ FilterMoveClip
    \/ FilterRerun

SpecRerun == InitRerun /\ [][NextRerun]_vars

\* the clip folder of the duplicate the move loop is at: <<name>>, or <<>>
\* when the duplicate has no id or no folder under the clips root
FolderAtHand ==
    LET song_id == StrippedField(duplicates[ridx + 1], "id")
    IN  IF /\ song_id # <<>> /\ song_id \in DOMAIN clips_root
           /\ clips_root[song_id].kind = "dir"
        THEN <<song_id>> ELSE <<>>

\* the name is the folder's own when that is free in the duplicates folder,
\* otherwise <folder>__dup<k> for the smallest k >= 2 that is free
IsLandingName(n, folder, dst) ==
    IF folder \notin DOMAIN dst THEN n = folder
    ELSE \E k \in 2..(Cardinality(DOMAIN dst) + 2) :
            /\ n = DupName(folder, k)
            /\ n \notin DOMAIN dst
            /\ \A j \in 2..(k - 1) : DupName(folder, j) \in DOMAIN dst

\* C18: the move of a duplicate's clip folder leaves every entry of the
\* duplicates folder as it was and adds the folder under its own name or,
\* when that is taken, under <name>__dup<n> for the smallest free n >= 2; a
\* duplicate whose folder is gone, as in a second run, moves nothing and the
\* loop goes on.
C18_FolderMoveKeepsQuarantine ==
    [][(tool = "filter" /\ rpc = "move" /\ ridx < Len(duplicates)) =>
          /\ FolderAtHand # <<>> =>
                LET folder == FolderAtHand[1]
                IN  /\ \A n \in DOMAIN duplicates_dir :
                          /\ n \in DOMAIN duplicates_dir'
                          /\ duplicates_dir'[n] = duplicates_dir[n]
                    /\ \E n \in DOMAIN duplicates_dir' :
                          /\ DOMAIN duplicates_dir' = DOMAIN duplicates_dir \cup {n}
                          /\ IsLandingName(n, folder, duplicates_dir)
                          /\ duplicates_dir'[n] = clips_root[folder]
                    /\ folder \notin DOMAIN clips_root'
          /\ StrippedField(duplicates[ridx + 1], "id") \notin DOMAIN clips_root =>
                /\ UNCHANGED <<clips_root, duplicates_dir>>
                /\ ridx' = ridx + 1
                /\ rpc' \in {"move", "done"}
    ]_vars

\* a second run has ended; the two folders kept in the duplicates folder are
\* as they were, and the folder of x1, cut again in between, landed twice:
\* under __dup3 in the first run and under __dup4 in the second
C18_Witness ==
    /\ tool = "filter" /\ rpc = "done" /\ filter_runs = 2
    /\ S_x1 \in DOMAIN duplicates_dir /\ duplicates_dir[S_x1] = Entry("dir", "kept")
    /\ DupName(S_x1, 2) \in DOMAIN duplicates_dir
    /\ duplicates_dir[DupName(S_x1, 2)] = Entry("dir", "kept")
    /\ DupName(S_x1, 3) \in DOMAIN duplicates_dir
    /\ duplicates_dir[DupName(S_x1, 3)] = Entry("dir", "clips")
    /\ DupName(S_x1, 4) \in DOMAIN duplicates_dir
    /\ S_x1 \notin DOMAIN clips_root

-----------------------------------------------------------------------------
(* Failures of the external calls *)

\* the lookup raised (network or HTTP error)
LookupRaised(outcome) ==
    \/ outcome.search = "raises"
    \/ outcome.search = "hit" /\ outcome.page = "raises"

\* an external call failed in process r
FailedIn(r) ==
    \/ \E i \in 1..Len(lookups) : lookups[i].run = r /\ LookupRaised(lookups[i].outcome)
    \/ \E j \in 1..Len(served) : served[j].run = r /\ served[j].called /\ ~served[j].ok

\* process r is over
Ended(r) == r < runs \/ (r = runs /\ cpc = "idle")

\* C19: a process of either cleaner in which a reference lookup or the model
\* call failed on an item goes on with the following items: when it is over
\* it has written the output file and saved the cache.
C19_FailureContained ==
    \A r \in 1..runs :
        (FailedIn(r) /\ Ended(r)) => (r \in saved_runs /\ out_file # <<>>)

-----------------------------------------------------------------------------
(* A cache file that holds no JSON object *)

\* the cache files a process may find in place of a saved cache
UnusableFiles == {<<>>, Unusable("text"), Unusable("array"), Unusable("binary")}

InitCorrupt ==
    /\ BuildIdle /\ ReconIdle /\ CallIdle
    /\ cleaner \in {"metadata", "album"}
    /\ args \in ArgsMenu
    /\ input_name = IF cleaner = "metadata" THEN S_tamil_json ELSE S_english_json
    /\ cpc = "idle" /\ in_items = <<>> /\ idx = 0 /\ processed = 0 /\ updated = <<>>
    /\ cache = EmptyDict /\ cache_file \in UnusableFiles /\ out_file = <<>>
    /\ runs = 0 /\ saved_runs = {} /\ served = <<>> /\ lookups = <<>>
    /\ cache_type = "dict" /\ loaded = <<>>

SpecCorrupt == InitCorrupt /\ [][NextCache]_vars

\* the model call failed in process r
ModelFailedIn(r) ==
    \E j \in 1..Len(served) : served[j].run = r /\ served[j].called /\ ~served[j].ok

\* C20: a process of either cleaner that found no usable cache file (missing,
\* no JSON, or JSON that is no object) is not aborted by it: it works on an
\* empty dict, and unless the model call itself fails it ends with the output
\* file written and the cache saved.
C20_UnusableCacheNotFatal ==
    \A r \in 1..runs :
        loaded[r] # "object" =>
            /\ (r = runs /\ cpc = "loop") => cache_type = "dict"
            /\ (Ended(r) /\ ~ModelFailedIn(r)) => (r \in saved_runs /\ out_file # <<>>)

-----------------------------------------------------------------------------
(* A CSV file whose header line lacks columns *)

Columns == {"title", "album", "artists", "uri"}

\* the row csv.DictReader yields for a line under a header without the
\* columns in missing
Without(r, missing) == [c \in (DOMAIN r) \ missing |-> r[c]]

\* the columns without which the build takes no row
Required(which) ==
    IF which = "tamil" THEN {"title", "artists", "uri"} ELSE {"title", "artists"}

\* both builds over a CSV of one to MaxRows lines whose header has any
\* subset of the columns; every preview and its clip are on disk
InitCsv ==
    /\ LoopStart
    /\ script \in {"english", "tamil"}
    /\ \E lines \in SeqsUpTo(ClipRowMenu, MaxRows) \ {<<>>}, missing \in SUBSET Columns :
            rows = [i \in 1..Len(lines) |-> Without(lines[i], missing)]
    /\ mp3s = (IF script = "english" THEN {S_a_x, S_a_x_dup} ELSE {S_x, S_x_dup})
    /\ clips = {<<n, 1>> : n \in mp3s}
    /\ durations = <<1>>
    /\ require_all = FALSE
    /\ only_preview = None
    /\ overrides = EmptyDict

SpecCsv == InitCsv /\ [][NextClips]_vars

\* the header of the CSV lacks a column the build requires
Malformed ==
    /\ script \in {"english", "tamil"}
    /\ rows # <<>>
    /\ Required(script) \ (DOMAIN rows[1]) # {}

\* C21: a build over a CSV whose header lacks a required column (Track Name,
\* Artist Name(s)) aborts: it never reaches the end of the run, where the
\* catalog file is created or replaced.
C21_MalformedWritesNothing == Malformed => pc # "done"

-----------------------------------------------------------------------------
(* Resuming the enrichment *)

\* between processings i and j the payload under their cache key is the same
PayloadUnchanged(i, j) ==
    /\ i < j /\ SamePair(i, j)
    /\ \A k \in (i + 1)..(j - 1) :
          served[k].key = served[i].key => served[k].hash = served[i].hash

\* C22: once a process has obtained the model's result for an item, a later
\* process over the same file makes no model call for that item while its
\* payload is unchanged, whether the earlier process ran to its end, stopped
\* at the window limit, or died on a later item.
C22_ResumeNeverRefetches ==
    \A i, j \in 1..Len(served) :
        (/\ PayloadUnchanged(i, j)
         /\ served[i].run < served[j].run
         /\ served[i].called /\ served[i].ok)
            => ~served[j].called

-----------------------------------------------------------------------------
(* The window of a run: --start-at and --limit *)

MaxStartAt == 2
MaxLimit == 2

\* command lines with every window up to the bounds, without the model
WindowArgs ==
    { [wiki |-> TRUE, llm |-> FALSE, start_at |-> s, limit |-> l, fill_unknown |-> "empty"] :
        s \in 0..MaxStartAt, l \in {<<>>} \cup {<<n>> : n \in 0..MaxLimit} }

InitWindow ==
    /\ BuildIdle /\ ReconIdle /\ CallIdle
    /\ cleaner \in {"metadata", "album"}
    /\ args \in WindowArgs
    /\ input_name = IF cleaner = "metadata" THEN S_tamil_json ELSE S_english_json
    /\ cpc = "idle" /\ in_items = <<>> /\ idx = 0 /\ processed = 0 /\ updated = <<>>
    /\ cache = EmptyDict /\ cache_file = <<>> /\ out_file = <<>>
    /\ runs = 0 /\ saved_runs = {} /\ served = <<>> /\ lookups = <<>>
    /\ cache_type = "dict" /\ loaded = <<>>

SpecWindow == InitWindow /\ [][NextCache]_vars

\* the last process has written its output file
Written == cleaner # "none" /\ cpc = "idle" /\ runs >= 1 /\ runs \in saved_runs

\* position k (from 1) of the input lies outside the window
OutsideWindow(k) ==
    \/ k <= args.start_at
    \/ args.limit # <<>> /\ k > args.start_at + args.limit[1]

\* C23: the output list of either cleaner has the length and the order of
\* the input list; the items before --start-at and the items from the point
\* where --limit items have been processed are the input's items, unchanged.
C23_WindowFrame ==
    Written =>
        /\ Len(out_file[1]) = Len(in_items)
        /\ \A k \in 1..Len(in_items) :
              OutsideWindow(k) => out_file[1][k] = in_items[k]

\* a window strictly inside a list of three: the item in it is changed, the
\* items around it are not
C23_Witness ==
    /\ Written /\ Len(in_items) = 3
    /\ args.start_at = 1 /\ args.limit = <<1>>
    /\ out_file[1][2] # in_items[2]
    /\ out_file[1][1] = in_items[1] /\ out_file[1][3] = in_items[3]

-----------------------------------------------------------------------------
(* Registration of the chosen ids *)

\* C24: the id chosen for a row is in used_ids from the moment the row
\* leaves the loop that chose it, admitted or not, so that no later row of
\* the run is given the same id.
C24_ChosenIdRegistered ==
    /\ \A i \in 1..Len(chosen) : chosen[i].id \in used_ids
    /\ \A i, j \in 1..Len(chosen) : i < j => chosen[i].id # chosen[j].id

-----------------------------------------------------------------------------
(* The ids as a function of the rows *)

RECURSIVE WhileLoop(_, _, _, _)
RECURSIVE CutIds(_, _, _, _)

\* cut_audio_clips._build_id_map 119-122: "while unique_id in used_ids"
\* run to its end (None when it is still running after MaxCounter rounds)
WhileLoop(bid, uid, n, used) ==
    IF uid \notin used THEN uid
    ELSE IF n > MaxCounter THEN None
    ELSE WhileLoop(bid, CounterCandidate(bid, n), n + 1, used)

\* cut_audio_clips._build_id_map 101-123 over rows k.., with used_ids = used:
\* the id of every row (None for a row that is given none)
CutIds(rs, k, used, style) ==
    IF k > Len(rs) THEN <<>>
    ELSE LET title    == Strip(Field(rs[k], "title"))
             artist   == Strip(Field(rs[k], "artists"))
             track_id == ParseTrackId(Field(rs[k], "uri"))
             bid      == IF style = "tamil" THEN Slugify(title)
                         ELSE Slugify(artist \o <<"-">> \o title)
             uid      == WhileLoop(bid, FirstCandidate(bid, DupSuffix(track_id), used),
                                   2, used)
         IN  IF title = <<>> \/ (style # "tamil" /\ artist = <<>>)
             THEN <<None>> \o CutIds(rs, k + 1, used, style)
             ELSE IF uid = None THEN [i \in 1..(Len(rs) - k + 1) |-> None]
             ELSE <<uid>> \o CutIds(rs, k + 1, used \cup {uid}, style)

\* C25: the id a build gives a row is the id that
\* cut_audio_clips._build_id_map gives the same row of the same CSV, a
\* function of the rows alone, whatever audio is on disk.
C25_BuildIdIsCutId ==
    script \in {"english", "tamil"} =>
        \A i \in 1..Len(chosen) :
            LET ref == CutIds(rows, 1, {}, script)[chosen[i].n]
            IN  ref # None => chosen[i].id = ref

-----------------------------------------------------------------------------
(* The identity of a record under enrichment *)

\* C26: whatever object the model returns, every record that
\* clean_metadata_with_llm writes has the id of the input record at its
\* position.
C26_EnrichmentKeepsId ==
    (Written /\ cleaner = "metadata") =>
        \A k \in 1..Len(in_items) :
            Get(out_file[1][k], "id") = Get(in_items[k], "id")

-----------------------------------------------------------------------------
(* The pipeline: the Tamil build with overrides, then the enrichment *)

InitPipeline ==
    /\ pc = "row" /\ nrows = 0
    /\ row = CsvRow(<<>>, <<>>, <<>>, <<>>)
    /\ base_id = <<>> /\ unique_id = <<>> /\ counter = 2
    /\ used_ids = {} /\ items = <<>> /\ id_map = EmptyDict
    /\ chosen = <<>> /\ written = None
    /\ ReconIdle /\ CallIdle
    /\ script = "tamil"
    /\ rows \in SeqsUpTo(OvSongMenu, MaxRows)
    /\ mp3s = {S_x, S_x_m}
    /\ clips = {<<n, 1>> : n \in mp3s}
    /\ durations = <<1>>
    /\ require_all = FALSE
    /\ only_preview = None
    /\ \E ovrows \in SeqsUpTo(OvRecMenu, MaxOverrides) :
            overrides = LoadOverrides(ovrows)
    /\ cleaner = "metadata"
    /\ args = [wiki |-> FALSE, llm |-> TRUE, start_at |-> 0, limit |-> <<>>,
               fill_unknown |-> "null"]
    /\ input_name = S_tamil_json
    /\ cpc = "idle" /\ in_items = <<>> /\ idx = 0 /\ processed = 0 /\ updated = <<>>
    /\ cache = EmptyDict /\ cache_file = <<>> /\ out_file = <<>>
    /\ runs = 0 /\ saved_runs = {} /\ served = <<>> /\ lookups = <<>>
    /\ cache_type = "dict" /\ loaded = <<>>

NextPipeline ==
    \/ TamilRow
    \/ WhileStep
    \/ TamilAdmit
    \/ WriteCatalog
    \/ StartEnrich
    \/ CleanItem
    \/ FinishRun

SpecPipeline == InitPipeline /\ [][NextPipeline]_vars

\* the fields that an override and the model both give as plain text
ModelFields == {"movie", "music_director", "hero", "heroine"}

\* the override of the i-th row that got as far as the while loop supplies
\* field f, and the row is published
Overridden(i, f) ==
    /\ chosen[i].emitted
    /\ chosen[i].row.uri \in DOMAIN overrides
    /\ overrides[chosen[i].row.uri][f] # <<>>

\* C27: after the Tamil build with overrides and the enrichment of its
\* catalog, a record whose override row supplies movie, music_director, hero
\* or heroine carries the override's value for it, whatever the model
\* returned.
C27_OverrideSurvivesEnrichment ==
    (pc = "done" /\ Written) =>
        \A i \in 1..Len(chosen), f \in ModelFields :
            Overridden(i, f) =>
                out_file[1][Cardinality({j \in 1..i : chosen[j].emitted})][f]
                    = JStr(overrides[chosen[i].row.uri][f])

-----------------------------------------------------------------------------
(* An item without enrichment *)

\* the first process of the album cleaner, without the model, has ended and
\* none of its lookups has found an album: each raised, found no page, or
\* found a page without album
NoEnrichment ==
    /\ Written /\ cleaner = "album" /\ runs = 1
    /\ args.wiki /\ ~args.llm
    /\ \A i \in 1..Len(lookups) :
          ~(lookups[i].outcome.search = "hit" /\ lookups[i].outcome.page = "ok")

\* C28: when the album cleaner has no enrichment for an item (the lookup
\* raised and was caught, or found no album, and the model is not asked),
\* the item is written with the album it came with.
C28_UnenrichedAlbumKept ==
    NoEnrichment =>
        \A k \in 1..Len(in_items) :
            Get(out_file[1][k], "album") = Get(in_items[k], "album")

-----------------------------------------------------------------------------
(* The director among the singers *)

\* the artist entry is one from which director is inferred: its canonical
\* key is a key of the known-directors table for that director
NamesDirector(a, director) ==
    \E p \in KnownMusicDirectors : p[1] = CanonPerson(a) /\ p[2] = director

\* C29: an entry of the artist list from which the music director is
\* inferred, under any key of the known-directors table, is not among the
\* inferred singers when another artist who is no lyricist remains.
C29_DirectorNotASinger ==
    (call.fn = "guess_singers" /\ ret # <<>> /\ call.b # None) =>
        \A i \in 1..Len(call.a) :
            (/\ NamesDirector(call.a[i], call.b)
             /\ \E j \in 1..Len(call.a) :
                   ~IsLyricist(call.a[j]) /\ ~NamesDirector(call.a[j], call.b))
                => \A k \in 1..Len(ret[1]) : ret[1][k] # Strip(call.a[i])

-----------------------------------------------------------------------------
(* The clip cutter, then the build *)

\* the cutter with --csv over a folder of previews named by id, by track id
\* or by the legacy name, none of them cut yet; then the build
InitAgree ==
    /\ LoopStart
    /\ script = "cut_english"
    /\ rows \in SeqsUpTo(AssetRowMenu, MaxRows)
    /\ mp3s \in SUBSET Mp3Pool
    /\ clips = {}
    /\ durations \in {<<1>>, <<1, 2>>}
    /\ require_all \in BOOLEAN
    /\ only_preview = None
    /\ overrides = EmptyDict

NextAgree ==
    \/ CutRow
    \/ CutRegister
    \/ ReturnIdMap
    \/ CutClips
    \/ StartBuild
    \/ EnglishRow
    \/ WhileStep
    \/ EnglishAdmit
    \/ WriteCatalog

SpecAgree == InitAgree /\ [][NextAgree]_vars

\* C30: for every row whose preview is on disk under one of its candidate
\* names, the folder into which the cutter (given the same CSV) wrote the
\* preview's clips is the folder from which the build reads them, and the
\* row is admitted with a clip for every duration.
C30_CutterAndBuildAgree ==
    script = "english" =>
        \A i \in 1..Len(chosen) :
            chosen[i].preview # None =>
                /\ DictGet(id_map, chosen[i].preview, chosen[i].preview) = chosen[i].preview
                /\ chosen[i].emitted
                /\ DOMAIN chosen[i].audio = Requested

====
